---- MODULE Spec2Model ----
(***************************************************************************)
(* Quest Lookout (src/lookout.cpp): the polling loop of app_core_logic,    *)
(* its per-alarm lookout detection, escalation, silence window, cascade    *)
(* and activity gate.  Times are integer milliseconds (the code adds       *)
(* POLL_INTERVAL * 1000.0 = 50.0 to doubles, which is exact), angles are   *)
(* integer degrees.                                                        *)
(***************************************************************************)
EXTENDS Integers, Sequences, FiniteSets, TLC

VARIABLES
    pc,                     \* "startup" | "loop" | "failed" | "done": position in
                            \* app_core_logic
    alarms,                 \* std::vector<LookoutAlarmConfig> alarms
    widest_alarm_idx,       \* 1-based index (0 = the code's initial index, not valid)
    widest_alarm_valid,
    alarm_states,           \* std::vector<AlarmState> alarm_states
    elapsed_time_ms,
    log_check_timer_ms,
    condor_flight_active,
    center_hold_timer_ms,   \* center_hold_timer_seconds, in ms
    center_reset_active,
    iter,                   \* which path the last loop iteration took
    events,                 \* what the last iteration reported (its log lines)
    audio_cmds,             \* calls made on the sound players in the last iteration
    iterations,             \* loop iterations done so far
    logged,                 \* which resets and triggers the run has reported so far
    hwnd_valid,             \* IsWindow(g_hwnd)
    g_request_software_recenter,
    g_request_baseline_reset,
    last_should_recenter,   \* the static of the loop that holds ShouldRecenter
    g_has_manual_recenter_offset,
    g_baseline_reference,   \* the orientation the angles are measured from
    twin_states,            \* the alarm states of a second run that gets the same
                            \* samples and never gets a sound player
    observed,               \* the samples of the last two evaluated ticks, where
                            \* a run records them
    g_ovr_session,          \* the global handle is not nullptr
    session_live,           \* the session it names has not been destroyed
    hook                    \* where the keyboard hook stands in its recenter block

vars == <<pc, alarms, widest_alarm_idx, widest_alarm_valid, alarm_states,
          elapsed_time_ms, log_check_timer_ms, condor_flight_active,
          center_hold_timer_ms, center_reset_active, iter, events, audio_cmds,
          iterations, logged, hwnd_valid, g_request_software_recenter,
          g_request_baseline_reset, last_should_recenter,
          g_has_manual_recenter_offset,
                   g_baseline_reference, twin_states, observed,
          g_ovr_session, session_live, hook>>

(***************************************************************************)
(* Program constants                                                       *)
(***************************************************************************)
PollMs == 50
DefaultRepeatMs == 5000
MinRepeatMs == 100
InactiveSleepFactor == 5
center_reset_window_degrees == 20
TimeUnset == -1

(***************************************************************************)
(* Bounds of the model                                                     *)
(***************************************************************************)
MaxIters == 7           \* loop iterations explored by Spec
TrackIters == 10        \* the same for SpecTrack
PairIters == 5          \* the same for SpecPair
PairLoopIters == 5      \* the same for SpecPairLoop
LogCheckTicks == 3      \* iterations between two flight checks (20 in the code:
                        \* LOG_CHECK_INTERVAL / POLL_INTERVAL)
CenterHoldTicks == 2    \* center_reset.hold_time_seconds of settings.json, in poll periods

LogCheckMs == LogCheckTicks * PollMs
center_reset_hold_time_ms == CenterHoldTicks * PollMs

(***************************************************************************)
(* Configuration                                                           *)
(***************************************************************************)
LookoutAlarmConfig(h, up, down, maxt, minlook, silence, repeat, sv, ev, ramp) ==
    [ min_horizontal_angle    |-> h,
      min_vertical_angle_up   |-> up,
      min_vertical_angle_down |-> down,
      max_time_ms             |-> maxt,
      min_lookout_time_ms     |-> minlook,
      silence_after_look_ms   |-> silence,
      repeat_interval_ms      |-> repeat,
      start_volume            |-> sv,
      end_volume              |-> ev,
      volume_ramp_time_ms     |-> ramp ]

NoPlayer == [present |-> FALSE, playing |-> FALSE, volume |-> 0]

\* struct AlarmState with its default member initialisers
AlarmState ==
    [ warning_triggered      |-> FALSE,
      noLookTime_ms          |-> 0,
      repeat_timer_ms        |-> 0,
      warning_start_time_ms  |-> 0,
      looked_left_ever       |-> FALSE,
      looked_right_ever      |-> FALSE,
      looked_up_ever         |-> FALSE,
      looked_down_ever       |-> FALSE,
      left_ever_time_ms      |-> TimeUnset,
      right_ever_time_ms     |-> TimeUnset,
      alarm_silence_until_ms |-> 0,
      sound_player           |-> NoPlayer,
      silence_message_printed_this_period |-> FALSE ]

Abs(x) == IF x < 0 THEN -x ELSE x

Enabled(cfg) == cfg.min_horizontal_angle > 0

(***************************************************************************)
(* The per-alarm evaluation of one tick (the body of the for loop over the *)
(* alarms).  It works on a carrier c = [st, ev, cmds]: the vector of alarm *)
(* states, the events reported so far and the player calls made so far in  *)
(* this iteration.                                                         *)
(***************************************************************************)
Carrier(st) == [st |-> st, ev |-> {}, cmds |-> <<>>]

\* a log line of the iteration: the alarm (0: the loop itself), what happened, and
\* the number the line prints, if any
Emit(c, i, tag, val) == [c EXCEPT !.ev = @ \cup {<<i, tag, val>>}]

\* the lines of an iteration that the run's record keeps: the resets, the triggers
\* and the deferrals
NotableTags == {"center_reset", "triggered", "deferred", "cascade", "flight_end",
                "session_lost"}
Notable(ev) == {<<e[1], e[2]>> : e \in {x \in ev : x[2] \in NotableTags}}

Call(c, i, op, vol) == [c EXCEPT !.cmds = Append(@, <<i, op, vol>>)]

currently_looking_left(cfg, dyaw) == 2 * dyaw > cfg.min_horizontal_angle
\* faulty variant: a head far to the left counted as looking right as well
currently_looking_right_Unsigned(cfg, dyaw) == 2 * dyaw > cfg.min_horizontal_angle + 40
currently_looking_right(cfg, dyaw) == 2 * dyaw < -cfg.min_horizontal_angle
currently_looking_up(cfg, dpitch) == dpitch > cfg.min_vertical_angle_up
currently_looking_down(cfg, dpitch) == dpitch < -cfg.min_vertical_angle_down

\* faulty variant: a look to the left is new only while no warning is active
NewLeft_Calm(s, cfg, dyaw) ==
    currently_looking_left(cfg, dyaw) /\ ~s.looked_left_ever /\ ~s.warning_triggered

NewLeft(s, cfg, dyaw) == currently_looking_left(cfg, dyaw) /\ ~s.looked_left_ever
NewRight(s, cfg, dyaw) == currently_looking_right(cfg, dyaw) /\ ~s.looked_right_ever

\* faulty variant: a look counts as new in every tick in which the head is past the
\* threshold
new_lr_look_this_tick_Held(s, cfg, dyaw) ==
    currently_looking_left(cfg, dyaw) \/ currently_looking_right(cfg, dyaw)

new_lr_look_this_tick(s, cfg, dyaw) == NewLeft(s, cfg, dyaw) \/ NewRight(s, cfg, dyaw)

\* faulty variant: a new look up is timed like a look to the left
RegisterLooks_UpTimed(s, cfg, now, dyaw, dpitch) ==
    [s EXCEPT
       !.looked_left_ever   = @ \/ currently_looking_left(cfg, dyaw),
       !.left_ever_time_ms  = IF NewLeft(s, cfg, dyaw)
                                 \/ (currently_looking_up(cfg, dpitch) /\ ~s.looked_up_ever)
                              THEN now ELSE @,
       !.looked_right_ever  = @ \/ currently_looking_right(cfg, dyaw),
       !.right_ever_time_ms = IF NewRight(s, cfg, dyaw) THEN now ELSE @,
       !.looked_up_ever     = @ \/ currently_looking_up(cfg, dpitch),
       !.looked_down_ever   = @ \/ currently_looking_down(cfg, dpitch)]

\* faulty variant: only a look to the left records its time
RegisterLooks_LeftTimeOnly(s, cfg, now, dyaw, dpitch) ==
    [s EXCEPT
       !.looked_left_ever   = @ \/ currently_looking_left(cfg, dyaw),
       !.left_ever_time_ms  = IF NewLeft(s, cfg, dyaw) THEN now ELSE @,
       !.looked_right_ever  = @ \/ currently_looking_right(cfg, dyaw),
       !.looked_up_ever     = @ \/ currently_looking_up(cfg, dpitch),
       !.looked_down_ever   = @ \/ currently_looking_down(cfg, dpitch)]

\* the four "registered" blocks: a direction beyond its threshold sets its flag,
\* a horizontal one also records the time
RegisterLooks(s, cfg, now, dyaw, dpitch) ==
    [s EXCEPT
       !.looked_left_ever   = @ \/ currently_looking_left(cfg, dyaw),
       !.left_ever_time_ms  = IF NewLeft(s, cfg, dyaw) THEN now ELSE @,
       !.looked_right_ever  = @ \/ currently_looking_right(cfg, dyaw),
       !.right_ever_time_ms = IF NewRight(s, cfg, dyaw) THEN now ELSE @,
       !.looked_up_ever     = @ \/ currently_looking_up(cfg, dpitch),
       !.looked_down_ever   = @ \/ currently_looking_down(cfg, dpitch)]

RegisterEvents(c, i, s, cfg, dyaw, dpitch) ==
    [c EXCEPT !.ev = @
        \cup (IF NewLeft(s, cfg, dyaw) THEN {<<i, "L", 0>>} ELSE {})
        \cup (IF NewRight(s, cfg, dyaw) THEN {<<i, "R", 0>>} ELSE {})
        \cup (IF currently_looking_up(cfg, dpitch) /\ ~s.looked_up_ever
                 THEN {<<i, "U", 0>>} ELSE {})
        \cup (IF currently_looking_down(cfg, dpitch) /\ ~s.looked_down_ever
                 THEN {<<i, "D", 0>>} ELSE {})]

\* noLookTime_ms always advances, repeat_timer_ms only while warning_triggered
AdvanceTimers(s) ==
    [s EXCEPT !.noLookTime_ms   = @ + PollMs,
              !.repeat_timer_ms = IF s.warning_triggered THEN @ + PollMs ELSE @]

AllFourSeen(s) ==
    s.looked_left_ever /\ s.looked_right_ever /\ s.looked_up_ever /\ s.looked_down_ever

\* faulty variant: the difference without the absolute value
lr_time_diff_ms_Signed(s) == s.left_ever_time_ms - s.right_ever_time_ms

lr_time_diff_ms(s) == Abs(s.left_ever_time_ms - s.right_ever_time_ms)

\* faulty variant: an exclusive comparison
LookoutSuccessful_Strict(s, cfg) == lr_time_diff_ms(s) > cfg.min_lookout_time_ms

LookoutSuccessful(s, cfg) == lr_time_diff_ms(s) >= cfg.min_lookout_time_ms

\* sound_player->stop()
Stopped(p) == [p EXCEPT !.playing = FALSE]

\* faulty variant: a reset that leaves the silence window open
ResetState_KeepSilence(s) ==
    [s EXCEPT
       !.noLookTime_ms = 0, !.warning_triggered = FALSE, !.repeat_timer_ms = 0,
       !.looked_left_ever = FALSE, !.left_ever_time_ms = TimeUnset,
       !.looked_right_ever = FALSE, !.right_ever_time_ms = TimeUnset,
       !.looked_up_ever = FALSE, !.looked_down_ever = FALSE,
       !.silence_message_printed_this_period = FALSE,
       !.sound_player = IF @.present THEN Stopped(@) ELSE @]

\* the reset of an alarm on its own success and on the cascade (the same
\* assignments in both places); warning_start_time_ms is not touched
ResetState(s) ==
    [s EXCEPT
       !.noLookTime_ms = 0, !.warning_triggered = FALSE, !.repeat_timer_ms = 0,
       !.looked_left_ever = FALSE, !.left_ever_time_ms = TimeUnset,
       !.looked_right_ever = FALSE, !.right_ever_time_ms = TimeUnset,
       !.looked_up_ever = FALSE, !.looked_down_ever = FALSE,
       !.silence_message_printed_this_period = FALSE,
       !.alarm_silence_until_ms = 0,
       !.sound_player = IF @.present THEN Stopped(@) ELSE @]

ResetAlarm(c, j, tag, val) ==
    LET c1 == [c EXCEPT !.st[j] = ResetState(@)]
        c2 == IF c.st[j].sound_player.present THEN Call(c1, j, "stop", 0) ELSE c1
    IN  Emit(c2, j, tag, val)

\* faulty variant: the cascade reaching only the alarms before the widest
CascadeTargets_Earlier(cfgs, i, widestValid, widestIdx) ==
    IF widestValid /\ i = widestIdx
    THEN {j \in 1..Len(cfgs) :
             /\ cfgs[j].min_horizontal_angle > 0
             /\ j < i
             /\ cfgs[j].min_horizontal_angle < cfgs[i].min_horizontal_angle}
    ELSE {}

\* faulty variant: the cascade reaching the alarms that are as wide as well
CascadeTargets_Equal(cfgs, i, widestValid, widestIdx) ==
    IF widestValid /\ i = widestIdx
    THEN {j \in 1..Len(cfgs) :
             /\ cfgs[j].min_horizontal_angle > 0
             /\ j # i
             /\ cfgs[j].min_horizontal_angle <= cfgs[i].min_horizontal_angle}
    ELSE {}

\* which alarms the success of alarm i resets besides itself
\* faulty variant: the success of any alarm resetting every other enabled alarm
CascadeTargets_FromAny(cfgs, i, widestValid, widestIdx) ==
    {j \in 1..Len(cfgs) : cfgs[j].min_horizontal_angle > 0 /\ j # i}

CascadeTargets(cfgs, i, widestValid, widestIdx) ==
    IF widestValid /\ i = widestIdx
    THEN {j \in 1..Len(cfgs) :
             /\ cfgs[j].min_horizontal_angle > 0
             /\ j # i
             /\ cfgs[j].min_horizontal_angle < cfgs[i].min_horizontal_angle}
    ELSE {}

RECURSIVE ResetAll(_, _, _)
ResetAll(c, js, tag) ==
    IF js = {} THEN c
    ELSE LET j == CHOOSE x \in js : \A y \in js : x <= y
         IN  ResetAll(ResetAlarm(c, j, tag, 0), js \ {j}, tag)

\* faulty variant: PARTIAL clearing the vertical flags too
PartialReset_AllFlags(s) ==
    [s EXCEPT !.looked_left_ever = FALSE, !.left_ever_time_ms = TimeUnset,
              !.looked_right_ever = FALSE, !.right_ever_time_ms = TimeUnset,
              !.looked_up_ever = FALSE, !.looked_down_ever = FALSE]

\* faulty variant: PARTIAL reported only, the flags left standing
PartialReset_None(s) == s

\* faulty variant: PARTIAL clearing the horizontal flags and leaving their times
PartialReset_KeepTimes(s) ==
    [s EXCEPT !.looked_left_ever = FALSE, !.looked_right_ever = FALSE]

\* the PARTIAL branch: only the horizontal flags and times are cleared
PartialReset(s) ==
    [s EXCEPT !.looked_left_ever = FALSE, !.left_ever_time_ms = TimeUnset,
              !.looked_right_ever = FALSE, !.right_ever_time_ms = TimeUnset]

\* faulty variant: a new L/R look opens the silence window only while the alarm
\* is not warning
OpenSilence_IdleOnly(c, i, cfg, now) ==
    IF c.st[i].warning_triggered THEN c
    ELSE Emit([c EXCEPT !.st[i].alarm_silence_until_ms = now + cfg.silence_after_look_ms],
              i, "silence", 0)

\* a new L/R look opens the silence window and mutes a sounding warning
OpenSilence(c, i, cfg, now) ==
    LET s  == c.st[i]
        mute == s.warning_triggered /\ s.sound_player.present
        s1 == [s EXCEPT
                 !.alarm_silence_until_ms = now + cfg.silence_after_look_ms,
                 !.sound_player.volume = IF mute THEN 0 ELSE @,
                 !.silence_message_printed_this_period = IF mute THEN TRUE ELSE @]
        c1 == Emit([c EXCEPT !.st[i] = s1], i, "silence", 0)
    IN  IF mute THEN Call(c1, i, "setVolume", 0) ELSE c1

\* static_cast<int>(x / d) for d > 0: truncation toward zero
TruncDiv(x, d) == IF x >= 0 THEN x \div d ELSE -((-x) \div d)

(***************************************************************************)
(* The arithmetic of double: a non-negative value is an integer part and a *)
(* sequence of fraction bits; every operation rounds its exact result to   *)
(* SignificandBits significant bits, to nearest, ties to even.             *)
(***************************************************************************)
SignificandBits == 53

RECURSIVE BitLength(_)
BitLength(n) == IF n = 0 THEN 0 ELSE 1 + BitLength(n \div 2)

\* the number of 0 bits before the first 1 bit
LeadingZeros(bits) ==
    LET ones == {k \in 1..Len(bits) : bits[k] = 1}
    IN  IF ones = {} THEN Len(bits)
        ELSE (CHOOSE k \in ones : \A j \in ones : k <= j) - 1

\* the eight bits of v < 256, most significant first
ByteBits(v) == [k \in 1..8 |-> (v \div 2^(8 - k)) % 2]

\* bits + one unit in the last place: <<carry out, bits>>
Increment(bits) ==
    LET zeros == {k \in 1..Len(bits) : bits[k] = 0}
    IN  IF zeros = {} THEN <<1, [k \in 1..Len(bits) |-> 0]>>
        ELSE LET last == CHOOSE k \in zeros : \A j \in zeros : j <= k
             IN  <<0, [k \in 1..Len(bits) |->
                         IF k < last THEN bits[k] ELSE IF k = last THEN 1 ELSE 0]>>

\* the double nearest to int + 0.frac
RoundToDouble(int, frac) ==
    LET keep == IF int > 0 THEN SignificandBits - BitLength(int)
                ELSE LeadingZeros(frac) + SignificandBits
    IN  IF Len(frac) <= keep THEN [int |-> int, frac |-> frac]
        ELSE LET kept   == SubSeq(frac, 1, keep)
                 guard  == frac[keep + 1]
                 sticky == \E k \in (keep + 2)..Len(frac) : frac[k] = 1
                 odd    == IF keep > 0 THEN kept[keep] = 1 ELSE int % 2 = 1
                 up     == guard = 1 /\ (sticky \/ odd)
                 r      == Increment(kept)
             IN  IF up THEN [int |-> int + r[1], frac |-> r[2]]
                 ELSE [int |-> int, frac |-> kept]

\* the quotient bits of num / den (0 < num < den), eight at a time, until
\* the division is exact or the bits go beyond the last significant one, and
\* the remainder left: <<bits, remainder>>
RECURSIVE QuotientBits(_, _, _)
QuotientBits(rem, den, bits) ==
    IF rem = 0 \/ Len(bits) - LeadingZeros(bits) > SignificandBits
    THEN <<bits, rem>>
    ELSE QuotientBits((256 * rem) % den, den,
                      bits \o ByteBits((256 * rem) \div den))

\* num / den as a double, for 0 < num < den: a remainder left counts as
\* one more bit behind the bits computed
DoubleQuotient(num, den) ==
    LET q == QuotientBits(num, den, <<>>)
    IN  RoundToDouble(0, IF q[2] = 0 THEN q[1] ELSE Append(q[1], 1))

\* 0.bits * d exactly, for an integer d > 0 and a number of bits that is a
\* multiple of eight: <<integer part, fraction bits>>; the bits from
\* position n down are done and the carry is what they give
RECURSIVE TimesInteger(_, _, _, _, _)
TimesInteger(bits, d, n, carry, done) ==
    IF n = 0 THEN <<carry, done>>
    ELSE LET v == 128 * bits[n - 7] + 64 * bits[n - 6] + 32 * bits[n - 5]
                  + 16 * bits[n - 4] + 8 * bits[n - 3] + 4 * bits[n - 2]
                  + 2 * bits[n - 1] + bits[n]
             p == v * d + carry
         IN  TimesInteger(bits, d, n - 8, p \div 256, ByteBits(p % 256) \o done)

\* x * d as a double, for a double x < 1 and an integer d > 0
DoubleProduct(x, d) ==
    LET bits == x.frac \o [k \in 1..((8 - (Len(x.frac) % 8)) % 8) |-> 0]
        m    == TimesInteger(bits, d, Len(bits), 0, <<>>)
    IN  RoundToDouble(m[1], m[2])

\* 1 - 0.bits, for bits that are not all 0
Complement(bits) == Increment([k \in 1..Len(bits) |-> 1 - bits[k]])[2]

\* static_cast<int>(n + x) and static_cast<int>(n - x) for an integer n >= 0
\* and a double 0 <= x <= n
TruncSum(n, x) == RoundToDouble(n + x.int, x.frac).int
TruncDifference(n, x) ==
    IF \A k \in 1..Len(x.frac) : x.frac[k] = 0 THEN n - x.int
    ELSE RoundToDouble(n - x.int - 1, Complement(x.frac)).int

\* the volume of a sounding warning, ramp_elapsed_ms after it was triggered
\* (volumes are not negative)
target_volume(cfg, ramp_elapsed_ms) ==
    IF cfg.volume_ramp_time_ms > 0 /\ cfg.end_volume # cfg.start_volume
    THEN IF ramp_elapsed_ms >= cfg.volume_ramp_time_ms
         THEN cfg.end_volume
         ELSE IF ramp_elapsed_ms = 0 THEN cfg.start_volume
         ELSE LET ramp_progress == DoubleQuotient(ramp_elapsed_ms,
                                                  cfg.volume_ramp_time_ms)
              IN  IF cfg.end_volume > cfg.start_volume
                  THEN TruncSum(cfg.start_volume,
                                DoubleProduct(ramp_progress,
                                              cfg.end_volume - cfg.start_volume))
                  ELSE TruncDifference(cfg.start_volume,
                                       DoubleProduct(ramp_progress,
                                                     cfg.start_volume - cfg.end_volume))
    ELSE cfg.end_volume

AudioOutcomes == {"ok", "no_player", "play_throws"}

\* get_or_create_sound_player: a player that was opened and test-played at
\* volume 0, or nullptr
get_or_create_sound_player(audio) ==
    IF audio = "no_player" THEN NoPlayer
    ELSE [present |-> TRUE, playing |-> FALSE, volume |-> 0]

\* faulty variant: a warning that starts only if its player starts
TriggerWarning_NeedsPlayer(c, i, cfg, now, audio) ==
    IF audio = "ok"
    THEN [c EXCEPT !.st[i].warning_triggered = TRUE,
                   !.st[i].repeat_timer_ms = 0,
                   !.st[i].warning_start_time_ms = now,
                   !.st[i].sound_player =
                       [present |-> TRUE, playing |-> TRUE, volume |-> cfg.start_volume]]
    ELSE c

\* faulty variant: a warning that starts without clearing the flags and times
TriggerWarning_KeepsFlags(c, i, cfg, now, audio) ==
    LET s   == c.st[i]
        had == s.sound_player.present
        c0  == IF had THEN Call(Call(c, i, "stop", 0), i, "delete", 0) ELSE c
        p1  == IF audio = "ok"
               THEN [present |-> TRUE, playing |-> TRUE, volume |-> cfg.start_volume]
               ELSE NoPlayer
        c1  == IF p1.present
               THEN Call(Call(c0, i, "setVolume", cfg.start_volume), i, "play",
                         cfg.start_volume)
               ELSE c0
        s1  == [s EXCEPT
                  !.silence_message_printed_this_period = FALSE,
                  !.warning_triggered = TRUE,
                  !.repeat_timer_ms = 0,
                  !.warning_start_time_ms = now,
                  !.sound_player = p1]
    IN  Emit([c1 EXCEPT !.st[i] = s1], i, "triggered", 0)

\* the idle threshold is reached outside a silence window: the warning starts
TriggerWarning(c, i, cfg, now, audio) ==
    LET s   == c.st[i]
        had == s.sound_player.present
        c0  == IF had THEN Call(Call(c, i, "stop", 0), i, "delete", 0) ELSE c
        p0  == get_or_create_sound_player(audio)
        p1  == IF ~p0.present THEN NoPlayer
               ELSE IF audio = "play_throws" THEN NoPlayer
               ELSE [present |-> TRUE, playing |-> TRUE, volume |-> cfg.start_volume]
        c1  == IF p1.present
               THEN Call(Call(c0, i, "setVolume", cfg.start_volume), i, "play",
                         cfg.start_volume)
               ELSE c0
        s1  == [s EXCEPT
                  !.silence_message_printed_this_period = FALSE,
                  !.warning_triggered = TRUE,
                  !.repeat_timer_ms = 0,
                  !.warning_start_time_ms = now,
                  !.looked_left_ever = FALSE, !.left_ever_time_ms = TimeUnset,
                  !.looked_right_ever = FALSE, !.right_ever_time_ms = TimeUnset,
                  !.looked_up_ever = FALSE, !.looked_down_ever = FALSE,
                  !.sound_player = p1]
    IN  Emit([c1 EXCEPT !.st[i] = s1], i, "triggered", 0)

\* the idle threshold is reached inside a silence window: nothing but a message
DeferWarning(c, i) ==
    Emit([c EXCEPT !.st[i].silence_message_printed_this_period = TRUE], i, "deferred", 0)

\* faulty variant: a due repeat inside the silence window resets the repeat timer
WarningTick_ResetsInSilence(c, i, cfg, now) ==
    LET s   == c.st[i]
        vol == target_volume(cfg, now - s.warning_start_time_ms)
        due == s.repeat_timer_ms >= cfg.repeat_interval_ms
    IN  IF now < s.alarm_silence_until_ms
        THEN IF due THEN [c EXCEPT !.st[i].repeat_timer_ms = 0] ELSE c
        ELSE IF due
             THEN LET c1 == [c EXCEPT !.st[i].repeat_timer_ms = 0]
                  IN  IF s.sound_player.present
                      THEN Emit(Call(Call(Call([c1 EXCEPT
                                                  !.st[i].sound_player.playing = TRUE,
                                                  !.st[i].sound_player.volume = vol],
                                               i, "setVolume", vol),
                                          i, "stop", vol), i, "play", vol),
                                i, "repeat", 0)
                      ELSE c1
             ELSE c

\* faulty variant: the ramp volume set inside the silence window as well
WarningTick_RampsInSilence(c, i, cfg, now) ==
    LET s   == c.st[i]
        vol == target_volume(cfg, now - s.warning_start_time_ms)
    IN  IF s.sound_player.present /\ now < s.alarm_silence_until_ms
        THEN Call([c EXCEPT !.st[i].sound_player.volume = vol,
                            !.st[i].silence_message_printed_this_period = TRUE],
                  i, "setVolume", vol)
        ELSE c

\* a tick of an alarm whose warning is already active: volume and repeat
WarningTick(c, i, cfg, now) ==
    LET s   == c.st[i]
        vol == target_volume(cfg, now - s.warning_start_time_ms)
        due == s.repeat_timer_ms >= cfg.repeat_interval_ms
    IN  IF s.sound_player.present
        THEN IF now < s.alarm_silence_until_ms
             THEN Call([c EXCEPT !.st[i].sound_player.volume = 0,
                                 !.st[i].silence_message_printed_this_period = TRUE],
                       i, "setVolume", 0)
             ELSE LET c1 == Call([c EXCEPT
                                    !.st[i].sound_player.volume = vol,
                                    !.st[i].silence_message_printed_this_period = FALSE],
                                 i, "setVolume", vol)
                  IN  IF due
                      THEN Emit(Call(Call([c1 EXCEPT !.st[i].sound_player.playing = TRUE,
                                                     !.st[i].repeat_timer_ms = 0],
                                          i, "stop", vol), i, "play", vol),
                                i, "repeat", 0)
                      ELSE c1
        ELSE IF due
             THEN Emit([c EXCEPT !.st[i].repeat_timer_ms = 0], i, "repeat_no_player", 0)
             ELSE c

\* faulty variant: the idle threshold taken as reached one poll period early
Escalate_Early(c, i, cfg, now, audio) ==
    LET s == c.st[i]
    IN  IF ~s.warning_triggered /\ s.noLookTime_ms + PollMs >= cfg.max_time_ms
        THEN IF now < s.alarm_silence_until_ms
             THEN DeferWarning(c, i)
             ELSE TriggerWarning(c, i, cfg, now, audio)
        ELSE IF s.warning_triggered
             THEN WarningTick(c, i, cfg, now)
             ELSE c

\* faulty variant: the idle threshold compared exclusively
Escalate_Strict(c, i, cfg, now, audio) ==
    LET s == c.st[i]
    IN  IF ~s.warning_triggered /\ s.noLookTime_ms > cfg.max_time_ms
        THEN IF now < s.alarm_silence_until_ms
             THEN DeferWarning(c, i)
             ELSE TriggerWarning(c, i, cfg, now, audio)
        ELSE IF s.warning_triggered
             THEN WarningTick(c, i, cfg, now)
             ELSE c

\* faulty variant: the silence window ignored by the trigger
Escalate_Unsilenced(c, i, cfg, now, audio) ==
    LET s == c.st[i]
    IN  IF ~s.warning_triggered /\ s.noLookTime_ms >= cfg.max_time_ms
        THEN TriggerWarning(c, i, cfg, now, audio)
        ELSE IF s.warning_triggered
             THEN WarningTick(c, i, cfg, now)
             ELSE c

\* the escalation part of an alarm's tick, after the lookout check
Escalate(c, i, cfg, now, audio) ==
    LET s == c.st[i]
    IN  IF ~s.warning_triggered /\ s.noLookTime_ms >= cfg.max_time_ms
        THEN IF now < s.alarm_silence_until_ms
             THEN DeferWarning(c, i)
             ELSE TriggerWarning(c, i, cfg, now, audio)
        ELSE IF s.warning_triggered
             THEN WarningTick(c, i, cfg, now)
             ELSE c

\* faulty variant: a SUCCESS that goes on to the silence window of the new look
EvaluateAlarm_SuccessFallsThrough(c, cfgs, i, now, dyaw, dpitch, audio, widestValid, widestIdx) ==
    LET cfg   == cfgs[i]
        s0    == c.st[i]
        newlr == new_lr_look_this_tick(s0, cfg, dyaw)
        s1    == AdvanceTimers(RegisterLooks(s0, cfg, now, dyaw, dpitch))
        c1    == RegisterEvents([c EXCEPT !.st[i] = s1], i, s0, cfg, dyaw, dpitch)
        c2    == IF AllFourSeen(s1) /\ LookoutSuccessful(s1, cfg)
                 THEN ResetAll(ResetAlarm(c1, i, "success", lr_time_diff_ms(s1)),
                               CascadeTargets(cfgs, i, widestValid, widestIdx),
                               "cascade")
                 ELSE IF AllFourSeen(s1)
                 THEN Emit([c1 EXCEPT !.st[i] = PartialReset(@)], i, "partial",
                           lr_time_diff_ms(s1))
                 ELSE c1
        c3    == IF newlr THEN OpenSilence(c2, i, cfg, now) ELSE c2
    IN  IF ~Enabled(cfg) THEN c ELSE Escalate(c3, i, cfg, now, audio)

\* one pass of the for-loop body for alarm i
EvaluateAlarm(c, cfgs, i, now, dyaw, dpitch, audio, widestValid, widestIdx) ==
    LET cfg   == cfgs[i]
        s0    == c.st[i]
        newlr == new_lr_look_this_tick(s0, cfg, dyaw)
        s1    == AdvanceTimers(RegisterLooks(s0, cfg, now, dyaw, dpitch))
        c1    == RegisterEvents([c EXCEPT !.st[i] = s1], i, s0, cfg, dyaw, dpitch)
    IN  IF ~Enabled(cfg) THEN c
        ELSE IF AllFourSeen(s1) /\ LookoutSuccessful(s1, cfg)
        THEN ResetAll(ResetAlarm(c1, i, "success", lr_time_diff_ms(s1)),
                      CascadeTargets(cfgs, i, widestValid, widestIdx), "cascade")
        ELSE LET c2 == IF AllFourSeen(s1)
                       THEN Emit([c1 EXCEPT !.st[i] = PartialReset(@)], i, "partial",
                                 lr_time_diff_ms(s1))
                       ELSE c1
                 c3 == IF newlr THEN OpenSilence(c2, i, cfg, now) ELSE c2
             IN  Escalate(c3, i, cfg, now, audio)

RECURSIVE EvaluateAlarms(_, _, _, _, _, _, _, _, _)
EvaluateAlarms(c, cfgs, i, now, dyaw, dpitch, audio, widestValid, widestIdx) ==
    IF i > Len(cfgs) THEN c
    ELSE EvaluateAlarms(
            EvaluateAlarm(c, cfgs, i, now, dyaw, dpitch, audio, widestValid, widestIdx),
            cfgs, i + 1, now, dyaw, dpitch, audio, widestValid, widestIdx)

(***************************************************************************)
(* The parts of a loop iteration around the per-alarm evaluation           *)
(***************************************************************************)
InCenterWindow(dyaw, dpitch) ==
    Abs(dyaw) < center_reset_window_degrees /\ Abs(dpitch) < center_reset_window_degrees

\* faulty variant: a center reset without the latch, fired again in every tick
\* the head stays in the window past the hold time
CenterResetFires_Unlatched(timer, active, dyaw, dpitch) ==
    /\ InCenterWindow(dyaw, dpitch)
    /\ timer + PollMs >= center_reset_hold_time_ms

CenterResetFires(timer, active, dyaw, dpitch) ==
    /\ InCenterWindow(dyaw, dpitch)
    /\ ~active
    /\ timer + PollMs >= center_reset_hold_time_ms

\* faulty variant: a center reset that starts the idle time again as well
CenterClear_Idle(s) ==
    [s EXCEPT !.looked_left_ever = FALSE, !.looked_right_ever = FALSE,
              !.looked_up_ever = FALSE, !.looked_down_ever = FALSE,
              !.left_ever_time_ms = TimeUnset, !.right_ever_time_ms = TimeUnset,
              !.noLookTime_ms = 0]

\* faulty variant: a center reset that closes the silence window as well
CenterClear_Window(s) ==
    [s EXCEPT !.looked_left_ever = FALSE, !.looked_right_ever = FALSE,
              !.looked_up_ever = FALSE, !.looked_down_ever = FALSE,
              !.left_ever_time_ms = TimeUnset, !.right_ever_time_ms = TimeUnset,
              !.alarm_silence_until_ms = 0]

\* faulty variant: a center reset that ends the warning as well
CenterClear_Warning(s) ==
    [s EXCEPT !.looked_left_ever = FALSE, !.looked_right_ever = FALSE,
              !.looked_up_ever = FALSE, !.looked_down_ever = FALSE,
              !.left_ever_time_ms = TimeUnset, !.right_ever_time_ms = TimeUnset,
              !.warning_triggered = FALSE]

\* the center reset clears the four flags and both times of an enabled alarm
CenterClear(s) ==
    [s EXCEPT !.looked_left_ever = FALSE, !.left_ever_time_ms = TimeUnset,
              !.looked_right_ever = FALSE, !.right_ever_time_ms = TimeUnset,
              !.looked_up_ever = FALSE, !.looked_down_ever = FALSE]

CenterReset(st, cfgs) ==
    [i \in 1..Len(st) |-> IF Enabled(cfgs[i]) THEN CenterClear(st[i]) ELSE st[i]]

\* faulty variant: a flight end that leaves the flags and the idle time standing
FlightEndReset_Partial(s) ==
    [s EXCEPT
       !.sound_player = Stopped(@),
       !.warning_triggered = FALSE,
       !.repeat_timer_ms = 0,
       !.warning_start_time_ms = 0,
       !.alarm_silence_until_ms = 0,
       !.silence_message_printed_this_period = FALSE]

\* the reset of every alarm when the flight ends
FlightEndReset(s) ==
    [s EXCEPT
       !.sound_player = Stopped(@),
       !.warning_triggered = FALSE,
       !.noLookTime_ms = 0,
       !.repeat_timer_ms = 0,
       !.warning_start_time_ms = 0,
       !.looked_left_ever = FALSE, !.looked_right_ever = FALSE,
       !.looked_up_ever = FALSE, !.looked_down_ever = FALSE,
       !.left_ever_time_ms = TimeUnset, !.right_ever_time_ms = TimeUnset,
       !.alarm_silence_until_ms = 0,
       !.silence_message_printed_this_period = FALSE]

\* faulty variant: the session loss resetting as much as a flight end
SessionLostReset_Full(s) == FlightEndReset(s)

\* the reset of every alarm when the HMD session is lost and cannot be re-created
SessionLostReset(s) ==
    [s EXCEPT
       !.sound_player = Stopped(@),
       !.warning_triggered = FALSE,
       !.noLookTime_ms = 0,
       !.repeat_timer_ms = 0]

\* the players that were started and not stopped since; getStatus() answers
\* Playing for them unless the sound has reached the end of its file (fin)
Playing(st) == {i \in 1..Len(st) : st[i].sound_player.present /\ st[i].sound_player.playing}

\* faulty variant: a reset that makes no stop() call
StopPlaying_Never(c, fin) == c

\* stop() calls of a reset that stops only players that are playing (a player
\* whose sound has run out is noted as such, getStatus() not being Playing)
StopPlaying(c, fin) ==
    LET RECURSIVE Go(_, _)
        Go(cc, i) ==
            IF i > Len(c.st) THEN cc
            ELSE Go(IF i \in Playing(c.st) \ fin THEN Call(cc, i, "stop", 0)
                    ELSE IF i \in Playing(c.st) THEN Emit(cc, i, "sound_ended", 0)
                    ELSE cc,
                    i + 1)
    IN  Go(c, 1)

CheckDue == log_check_timer_ms + PollMs >= LogCheckMs

\* the flight status after the log check block of this iteration
FlightAfterCheck(sim) == IF CheckDue THEN sim ELSE condor_flight_active

FlightEnds(sim) == CheckDue /\ condor_flight_active /\ ~sim
FlightStarts(sim) == CheckDue /\ ~condor_flight_active /\ sim

\* the log check block at the top of the loop: the carrier after it
LogCheck(sim, fin) ==
    LET c == Carrier(alarm_states)
    IN  IF FlightEnds(sim)
        THEN Emit([StopPlaying(c, fin) EXCEPT
                     !.st = [i \in 1..Len(c.st) |-> FlightEndReset(c.st[i])]],
                  0, "flight_end", 0)
        ELSE IF FlightStarts(sim) THEN Emit(c, 0, "flight_start", 0)
        ELSE c

LogCheckVars ==
    /\ log_check_timer_ms' = IF CheckDue THEN 0 ELSE log_check_timer_ms + PollMs
    /\ iterations' = iterations + 1
    /\ UNCHANGED <<pc, alarms, widest_alarm_idx, widest_alarm_valid, hwnd_valid, hook>>

\* orientations are named by numbers, the identity quaternion being 0
Identity == 0

\* a baseline reset is requested when the flight starts and when
\* sessionStatus.ShouldRecenter (recenter) goes up; it stays requested until it
\* is served
BaselinePending(sim, recenter) ==
    \/ g_request_baseline_reset
    \/ FlightStarts(sim)
    \/ recenter /\ ~last_should_recenter

\* the baseline reference is captured when the orientation is tracked
CaptureBaseline(c, pending, tracked, pose) ==
    IF pending /\ tracked THEN Emit(c, 0, "baseline_captured", pose) ELSE c

\* the baseline request and the software recenter request are served when the
\* orientation is tracked (reference and offset only move the angles of the
\* samples)
TrackedInputs(pending) ==
    IF g_request_software_recenter \/ pending THEN BOOLEAN ELSE {FALSE}
\* faulty variant: the request stays up after the capture
ServeRecenter_KeepsRequest(pending, recenter, tracked, pose) ==
    /\ last_should_recenter' = recenter
    /\ g_baseline_reference' = IF pending /\ tracked THEN pose ELSE g_baseline_reference
    /\ g_request_baseline_reset' = pending
    /\ g_request_software_recenter' = (g_request_software_recenter /\ ~tracked)
    /\ g_has_manual_recenter_offset' =
          (g_has_manual_recenter_offset \/ (g_request_software_recenter /\ tracked))

ServeRecenter(pending, recenter, tracked, pose) ==
    /\ last_should_recenter' = recenter
    /\ g_baseline_reference' = IF pending /\ tracked THEN pose ELSE g_baseline_reference
    /\ g_request_baseline_reset' = (pending /\ ~tracked)
    /\ g_request_software_recenter' = (g_request_software_recenter /\ ~tracked)
    /\ g_has_manual_recenter_offset' =
          (g_has_manual_recenter_offset \/ (g_request_software_recenter /\ tracked))

\* an orientation sample that the references in force can give: in the tick
\* that captures the baseline the head is at the reference, turned by the
\* yaw offset of a software recenter if there is one
SampleAtCapture(pending, dyaw, dpitch) ==
    pending =>
        /\ dpitch = 0
        /\ dyaw = 0 \/ g_has_manual_recenter_offset \/ g_request_software_recenter

(***************************************************************************)
(* Startup: the configuration pass and the widest alarm                    *)
(***************************************************************************)
\* faulty variant: only the horizontal span decides whether an alarm is disabled
NormalizeConfig_HorizontalOnly(cfg) ==
    LET c1 == IF cfg.repeat_interval_ms < MinRepeatMs
              THEN [cfg EXCEPT !.repeat_interval_ms = DefaultRepeatMs] ELSE cfg
    IN  IF c1.min_horizontal_angle <= 0
        THEN [c1 EXCEPT !.min_horizontal_angle = -1]
        ELSE c1

\* the startup pass over the loaded alarms: a short repeat interval becomes the
\* default, a disabled alarm is marked by min_horizontal_angle = -1
NormalizeConfig(cfg) ==
    LET c1 == IF cfg.repeat_interval_ms < MinRepeatMs
              THEN [cfg EXCEPT !.repeat_interval_ms = DefaultRepeatMs] ELSE cfg
    IN  IF c1.min_horizontal_angle <= 0
           \/ (c1.min_vertical_angle_up <= 0 /\ c1.min_vertical_angle_down <= 0)
        THEN [c1 EXCEPT !.min_horizontal_angle = -1]
        ELSE c1

\* faulty variant: a scan that moves on to a later alarm of the same span
RECURSIVE WidestScan_Last(_, _, _, _, _)
WidestScan_Last(cfgs, i, valid, idx, angle) ==
    IF i > Len(cfgs) THEN <<valid, idx>>
    ELSE IF cfgs[i].min_horizontal_angle > 0
            /\ (~valid \/ cfgs[i].min_horizontal_angle >= angle)
         THEN WidestScan_Last(cfgs, i + 1, TRUE, i, cfgs[i].min_horizontal_angle)
         ELSE WidestScan_Last(cfgs, i + 1, valid, idx, angle)

\* faulty variant: a scan that takes a disabled alarm when nothing was found yet
RECURSIVE WidestScan_Any(_, _, _, _, _)
WidestScan_Any(cfgs, i, valid, idx, angle) ==
    IF i > Len(cfgs) THEN <<valid, idx>>
    ELSE IF ~valid \/ cfgs[i].min_horizontal_angle > angle
         THEN WidestScan_Any(cfgs, i + 1, TRUE, i, cfgs[i].min_horizontal_angle)
         ELSE WidestScan_Any(cfgs, i + 1, valid, idx, angle)

\* the scan for the widest alarm: <<valid, idx>> after alarms i..Len
RECURSIVE WidestScan(_, _, _, _, _)
WidestScan(cfgs, i, valid, idx, angle) ==
    IF i > Len(cfgs) THEN <<valid, idx>>
    ELSE IF cfgs[i].min_horizontal_angle > 0
            /\ (~valid \/ cfgs[i].min_horizontal_angle > angle)
         THEN WidestScan(cfgs, i + 1, TRUE, i, cfgs[i].min_horizontal_angle)
         ELSE WidestScan(cfgs, i + 1, valid, idx, angle)

Wide   == LookoutAlarmConfig(120, 20, 5, 100, 100, 100, 100, 5, 100, 150)
Narrow == LookoutAlarmConfig(60, 30, 5, 50, 50, 50, 150, 10, 50, 100)

\* orientation samples <<dyaw, dpitch>> relative to the baseline
Samples == { <<0, 0>>, <<25, 0>>, <<70, 0>>, <<-70, 0>>, <<0, 25>>, <<-70, -10>> }

PairSamples == { <<0, 0>>, <<40, 0>>, <<-40, 0>>, <<70, 0>>, <<0, 25>>, <<0, 35>>,
                 <<-70, -10>>, <<70, 35>> }

PairLoopSamples == { <<0, 0>>, <<40, 0>>, <<70, 35>>, <<-70, -10>> }

TrackSamples == { <<0, 0>>, <<25, 0>>, <<40, 0>>, <<-40, 0>>, <<70, 0>>, <<-70, 0>>,
                  <<0, 25>>, <<0, 35>>, <<0, -10>>, <<-70, -10>>, <<70, 35>> }

InitWith(settings) ==
    /\ pc = "startup"
    /\ alarms \in settings
    /\ widest_alarm_idx = 0
    /\ widest_alarm_valid = FALSE
    /\ alarm_states = <<>>
    /\ elapsed_time_ms = 0
    /\ log_check_timer_ms = 0
    /\ condor_flight_active = FALSE
    /\ center_hold_timer_ms = 0
    /\ center_reset_active = FALSE
    /\ iter = "none"
    /\ events = {}
    /\ audio_cmds = <<>>
    /\ iterations = 0
    /\ logged = {}
    /\ hwnd_valid = TRUE
    /\ g_request_software_recenter = FALSE
    /\ g_request_baseline_reset = FALSE
    /\ last_should_recenter = FALSE
    /\ g_has_manual_recenter_offset = FALSE
    /\ g_baseline_reference = Identity
    /\ twin_states = <<>>
    /\ observed = <<>>
    /\ g_ovr_session = FALSE
    /\ session_live = FALSE
    /\ hook = "idle"

Startup(sim) ==
    /\ pc = "startup"
    /\ hwnd_valid
    /\ IF alarms = <<>>
       THEN /\ pc' = "failed"
            /\ session_live' = FALSE
            /\ UNCHANGED <<alarms, widest_alarm_idx, widest_alarm_valid, alarm_states,
                           condor_flight_active, twin_states>>
       ELSE LET cfgs == [i \in 1..Len(alarms) |-> NormalizeConfig(alarms[i])]
                w    == WidestScan(cfgs, 1, FALSE, 0, 0)
            IN  /\ pc' = "loop"
                /\ session_live' = TRUE
                /\ alarms' = cfgs
                /\ widest_alarm_valid' = w[1]
                /\ widest_alarm_idx' = w[2]
                /\ alarm_states' = [i \in 1..Len(alarms) |-> AlarmState]
                /\ twin_states' = [i \in 1..Len(alarms) |-> AlarmState]
                /\ condor_flight_active' = sim
    /\ UNCHANGED <<elapsed_time_ms, log_check_timer_ms, center_hold_timer_ms,
                   center_reset_active, iter, events, audio_cmds, iterations,
                   logged, hwnd_valid, g_request_software_recenter,
                   g_request_baseline_reset, last_should_recenter,
                   g_has_manual_recenter_offset, g_baseline_reference, observed,
                   hook>>
    /\ g_ovr_session' = TRUE

(***************************************************************************)
(* The loop: one action per path of an iteration.  sim is the answer of    *)
(* is_condor_simulation_window_active() when the flight check is due, fin  *)
(* the players whose sound has run out, maxIters the number of iterations  *)
(* that are explored.                                                      *)
(***************************************************************************)
\* the flight is inactive after the log check: sleep five poll periods
InactiveIteration(maxIters, sim, fin) ==
    /\ pc = "loop"
    /\ hwnd_valid
    /\ ~FlightAfterCheck(sim)
    /\ iterations < maxIters
    /\ \E c \in {LogCheck(sim, fin)} :
           /\ alarm_states' = c.st
           /\ events' = c.ev
           /\ audio_cmds' = c.cmds
           /\ logged' = logged \cup Notable(c.ev)
    /\ condor_flight_active' = FALSE
    /\ elapsed_time_ms' = elapsed_time_ms + PollMs * InactiveSleepFactor
    /\ iter' = "inactive"
    /\ LogCheckVars
    /\ UNCHANGED <<center_hold_timer_ms, center_reset_active,
                   g_request_software_recenter, g_request_baseline_reset,
                   last_should_recenter, g_has_manual_recenter_offset,
                   g_baseline_reference, twin_states, observed, g_ovr_session,
                   session_live>>

\* the session status call fails and the session cannot be re-created: the
\* iteration but for the global handle
SessionLostIterationCore(maxIters, sim, recenter, pose, fin) ==
    /\ pc = "loop"
    /\ hwnd_valid
    /\ FlightAfterCheck(sim)
    /\ iterations < maxIters
    /\ \E tracked \in TrackedInputs(BaselinePending(sim, recenter)) :
       \E c \in {CaptureBaseline(LogCheck(sim, {}), BaselinePending(sim, recenter),
                                  tracked, pose)} :
       \E c1 \in {Emit([StopPlaying(c, fin) EXCEPT
                          !.st = [i \in 1..Len(c.st) |-> SessionLostReset(c.st[i])]],
                       0, "session_lost", 0)} :
           /\ alarm_states' = c1.st
           /\ events' = c1.ev
           /\ audio_cmds' = c1.cmds
           /\ logged' = logged \cup Notable(c1.ev)
           /\ ServeRecenter(BaselinePending(sim, recenter), recenter, tracked, pose)
    /\ condor_flight_active' = TRUE
    /\ iter' = "session_lost"
    /\ LogCheckVars
    /\ UNCHANGED <<elapsed_time_ms, center_hold_timer_ms, center_reset_active,
                   twin_states, observed>>
    /\ session_live' = FALSE

\* the same with ovr_Destroy and the clearing of the handle in one step
SessionLostIteration(maxIters, sim, recenter, pose, fin) ==
    /\ SessionLostIterationCore(maxIters, sim, recenter, pose, fin)
    /\ g_ovr_session' = FALSE

\* orientation not tracked, headset not mounted or display lost
HmdNotReadyIteration(maxIters, sim, recenter, pose) ==
    /\ pc = "loop"
    /\ hwnd_valid
    /\ FlightAfterCheck(sim)
    /\ iterations < maxIters
    /\ \E tracked \in TrackedInputs(BaselinePending(sim, recenter)) :
       \E c \in {CaptureBaseline(LogCheck(sim, {}), BaselinePending(sim, recenter),
                                  tracked, pose)} :
           /\ alarm_states' = c.st
           /\ events' = c.ev
           /\ audio_cmds' = c.cmds
           /\ logged' = logged \cup Notable(c.ev)
           /\ ServeRecenter(BaselinePending(sim, recenter), recenter, tracked, pose)
    /\ condor_flight_active' = TRUE
    /\ elapsed_time_ms' = elapsed_time_ms + PollMs
    /\ iter' = "hmd_not_ready"
    /\ LogCheckVars
    /\ g_ovr_session' = TRUE
    /\ session_live' = TRUE
    /\ UNCHANGED <<center_hold_timer_ms, center_reset_active, twin_states, observed>>

\* the alarm states after the center reset and the pass over the alarms
EvalTick(c0, dyaw, dpitch, audio) ==
    EvaluateAlarms(
        IF CenterResetFires(center_hold_timer_ms, center_reset_active, dyaw, dpitch)
        THEN Emit([c0 EXCEPT !.st = CenterReset(c0.st, alarms)], 0, "center_reset", 0)
        ELSE c0,
        alarms, 1, elapsed_time_ms, dyaw, dpitch, audio,
        widest_alarm_valid, widest_alarm_idx)

\* a tick with an orientation sample: center reset, then every alarm in order
EvalIterationCore(maxIters, sim, recenter, pose, dyaw, dpitch, audio) ==
    /\ pc = "loop"
    /\ hwnd_valid
    /\ FlightAfterCheck(sim)
    /\ iterations < maxIters
    /\ SampleAtCapture(BaselinePending(sim, recenter), dyaw, dpitch)
    /\ \E c2 \in {EvalTick(CaptureBaseline(LogCheck(sim, {}),
                                            BaselinePending(sim, recenter), TRUE, pose),
                            dyaw, dpitch, audio)} :
           /\ alarm_states' = c2.st
           /\ events' = c2.ev
           /\ audio_cmds' = c2.cmds
           /\ logged' = logged \cup Notable(c2.ev)
    /\ center_reset_active' =
          IF InCenterWindow(dyaw, dpitch)
          THEN (center_reset_active
                \/ CenterResetFires(center_hold_timer_ms, center_reset_active,
                                    dyaw, dpitch))
          ELSE FALSE
    /\ center_hold_timer_ms' = IF InCenterWindow(dyaw, dpitch)
                               THEN center_hold_timer_ms + PollMs ELSE 0
    /\ condor_flight_active' = TRUE
    /\ elapsed_time_ms' = elapsed_time_ms + PollMs
    /\ iter' = "eval"
    /\ ServeRecenter(BaselinePending(sim, recenter), recenter, TRUE, pose)
    /\ g_ovr_session' = TRUE
    /\ session_live' = TRUE
    /\ LogCheckVars

EvalIteration(maxIters, sim, recenter, pose, dyaw, dpitch, audio) ==
    /\ EvalIterationCore(maxIters, sim, recenter, pose, dyaw, dpitch, audio)
    /\ UNCHANGED <<twin_states, observed>>

\* the inputs of an iteration that its path reads
SimInputs == IF CheckDue THEN BOOLEAN ELSE {condor_flight_active}
FinInputs(sim) == IF FlightEnds(sim) THEN SUBSET Playing(alarm_states) ELSE {{}}
AudioInputs ==
    IF \E i \in 1..Len(alarm_states) :
          /\ ~alarm_states[i].warning_triggered
          /\ alarm_states[i].noLookTime_ms + PollMs >= alarms[i].max_time_ms
    THEN AudioOutcomes ELSE {"ok"}

(***************************************************************************)
(* Spec: the whole loop with one alarm                                     *)
(***************************************************************************)
Settings == { <<Wide>>, <<>> }

Init == InitWith(Settings)

Next ==
    \/ \E sim \in BOOLEAN : Startup(sim)
    \/ \E sim \in SimInputs : \E fin \in FinInputs(sim) :
          InactiveIteration(MaxIters, sim, fin)
    \/ \E sim \in SimInputs, fin \in SUBSET Playing(alarm_states) :
          SessionLostIteration(MaxIters, sim, FALSE, Identity, fin)
    \/ \E sim \in SimInputs : HmdNotReadyIteration(MaxIters, sim, FALSE, Identity)
    \/ \E sim \in SimInputs, smp \in Samples, audio \in AudioInputs :
          EvalIteration(MaxIters, sim, FALSE, Identity, smp[1], smp[2], audio)

Spec == Init /\ [][Next]_vars

(***************************************************************************)
(* SpecTrack: the flight stays active and every iteration has a sample;    *)
(* one alarm                                                               *)
(***************************************************************************)
InitTrack == InitWith({ <<Wide>> })

NextTrack ==
    \/ Startup(TRUE)
    \/ \E smp \in TrackSamples, audio \in AudioInputs :
          EvalIteration(TrackIters, TRUE, FALSE, Identity, smp[1], smp[2], audio)

SpecTrack == InitTrack /\ [][NextTrack]_vars

(***************************************************************************)
(* SpecPair: as SpecTrack, with a wide and a narrow alarm in both orders   *)
(***************************************************************************)
PairSettings == { <<Wide, Narrow>>, <<Narrow, Wide>> }

InitPair == InitWith(PairSettings)

NextPair ==
    \/ Startup(TRUE)
    \/ \E smp \in PairSamples, audio \in AudioInputs :
          EvalIteration(PairIters, TRUE, FALSE, Identity, smp[1], smp[2], audio)

SpecPair == InitPair /\ [][NextPair]_vars

(***************************************************************************)
(* SpecTies: as SpecPair, with two alarms of the same horizontal span (the *)
(* second of them accepting a quicker look) and a narrow one               *)
(***************************************************************************)
Level == LookoutAlarmConfig(120, 20, 5, 100, 50, 100, 100, 5, 100, 150)

TieSettings == { <<Level, Wide>>, <<Wide, Level, Narrow>>, <<Narrow, Level, Wide>> }

SpecTies == InitWith(TieSettings) /\ [][NextPair]_vars

(***************************************************************************)
(* SpecPairLoop: the whole loop with a wide and a narrow alarm             *)
(***************************************************************************)
NextPairLoop ==
    \/ \E sim \in BOOLEAN : Startup(sim)
    \/ \E sim \in SimInputs : \E fin \in FinInputs(sim) :
          InactiveIteration(PairLoopIters, sim, fin)
    \/ \E sim \in SimInputs, fin \in SUBSET Playing(alarm_states) :
          SessionLostIteration(PairLoopIters, sim, FALSE, Identity, fin)
    \/ \E sim \in SimInputs : HmdNotReadyIteration(PairLoopIters, sim, FALSE, Identity)
    \/ \E sim \in SimInputs, smp \in PairLoopSamples, audio \in AudioInputs :
          EvalIteration(PairLoopIters, sim, FALSE, Identity, smp[1], smp[2], audio)

SpecPairLoop == InitPair /\ [][NextPairLoop]_vars

(***************************************************************************)
(* SpecCycle: one alarm, every iteration evaluated, and a head that makes  *)
(* the full cycle: left at 0, up at 100, down at 200, right at             *)
(* 100 + min_lookout_time_ms, on any path in between that crosses no       *)
(* threshold.                                                              *)
(***************************************************************************)
CycleIters == 9
CycleUpMs == 2 * PollMs
CycleDownMs == 4 * PollMs

CycleAlarm(minlook, maxt) == LookoutAlarmConfig(120, 20, 5, maxt, minlook, 100, 100, 5, 100, 150)

CycleSettings == { <<CycleAlarm(m, maxt)>> : m \in {100, 200, 300}, maxt \in {100, 1000} }

CycleRightMs == CycleUpMs + alarms[1].min_lookout_time_ms

\* the yaw and the pitch of the sample taken at time now
CycleYaws(now) ==
    IF now = 0 THEN {70} ELSE IF now = CycleRightMs THEN {-70} ELSE {0, 30}
CyclePitches(now) ==
    IF now = CycleUpMs THEN {35} ELSE IF now = CycleDownMs THEN {-10} ELSE {0}

InitCycle == InitWith(CycleSettings)

NextCycle ==
    \/ Startup(TRUE)
    \/ \E dyaw \in CycleYaws(elapsed_time_ms), dpitch \in CyclePitches(elapsed_time_ms),
          audio \in AudioInputs :
          EvalIteration(CycleIters, TRUE, FALSE, Identity, dyaw, dpitch, audio)

SpecCycle == InitCycle /\ [][NextCycle]_vars

(***************************************************************************)
(* SpecIdle: one alarm with max_time_ms = 2000 (the other settings at      *)
(* their defaults), every iteration evaluated, and a head that never       *)
(* crosses a threshold.                                                    *)
(***************************************************************************)
IdleIters == 45

ScenarioAlarm == LookoutAlarmConfig(120, 20, 5, 2000, 2000, 5000, 5000, 5, 100, 30000)

CalmSamples == { <<0, 0>>, <<30, 0>>, <<0, 10>> }

InitIdle == InitWith({ <<ScenarioAlarm>> })

NextIdle ==
    \/ Startup(TRUE)
    \/ \E smp \in CalmSamples, audio \in AudioInputs :
          EvalIteration(IdleIters, TRUE, FALSE, Identity, smp[1], smp[2], audio)

SpecIdle == InitIdle /\ [][NextIdle]_vars

(***************************************************************************)
(* SpecDeferred: the same alarm and a single glance to the left at 1900 ms *)
(***************************************************************************)
DeferIters == 142

GlanceMs == 38 * PollMs

DeferredSamples(now) == IF now = GlanceMs THEN { <<70, 0>> } ELSE CalmSamples

NextDeferred ==
    \/ Startup(TRUE)
    \/ \E smp \in DeferredSamples(elapsed_time_ms), audio \in AudioInputs :
          EvalIteration(DeferIters, TRUE, FALSE, Identity, smp[1], smp[2], audio)

SpecDeferred == InitIdle /\ [][NextDeferred]_vars

(***************************************************************************)
(* SpecLive: one alarm, every iteration evaluated, for ever.  The loop     *)
(* reads its clock and the times it has stored only through differences    *)
(* and comparisons, so the state is kept in a normal form that makes the   *)
(* behaviours of the unbounded run finite: after each tick the origin of   *)
(* the clock is moved forward by the poll period (elapsed_time_ms stays    *)
(* where it is and the stored times move back), and every quantity that is *)
(* only compared with a threshold stops at that threshold.  The loop never *)
(* stops iterating while the application runs: weak fairness.              *)
(***************************************************************************)
Min(a, b) == IF a < b THEN a ELSE b
Max(a, b) == IF a > b THEN a ELSE b

\* s, as the tick at time now left it, seen from an origin one poll period later
RebaseAlarm(s, cfg, now) ==
    LET l  == s.looked_left_ever
        r  == s.looked_right_ever
        lt == s.left_ever_time_ms - PollMs
        rt == s.right_ever_time_ms - PollMs
        m  == cfg.min_lookout_time_ms
    IN  [s EXCEPT
           \* 1188: only |left - right| is used, and only against min_lookout_time_ms
           !.left_ever_time_ms =
              IF ~l THEN TimeUnset
              ELSE IF r THEN (IF lt >= rt THEN now ELSE now - Min(rt - lt, m))
              ELSE Max(lt, now - m),
           !.right_ever_time_ms =
              IF ~r THEN TimeUnset
              ELSE IF l THEN (IF rt > lt THEN now ELSE now - Min(lt - rt, m))
              ELSE Max(rt, now - m),
           \* 1234, 1294: only elapsed_time_ms < alarm_silence_until_ms is used
           !.alarm_silence_until_ms = IF @ - PollMs <= now THEN 0 ELSE @ - PollMs,
           \* 1284-1287: the ramp stops at volume_ramp_time_ms
           !.warning_start_time_ms =
              IF s.warning_triggered
              THEN Max(@ - PollMs, now - cfg.volume_ramp_time_ms) ELSE 0,
           \* 1233: only noLookTime_ms >= max_time_ms is used
           !.noLookTime_ms = Min(@, cfg.max_time_ms),
           \* 1307, 1315: only repeat_timer_ms >= repeat_interval_ms is used
           !.repeat_timer_ms = Min(@, cfg.repeat_interval_ms)]

LiveAlarm == LookoutAlarmConfig(120, 20, 5, 100, 100, 200, 100, 5, 100, 150)

LiveSamples == { <<0, 0>>, <<30, 0>>, <<70, 35>>, <<-70, -10>> }

LiveIteration(dyaw, dpitch, audio) ==
    /\ pc = "loop"
    /\ hwnd_valid
    /\ SampleAtCapture(BaselinePending(TRUE, FALSE), dyaw, dpitch)
    /\ \E c2 \in {EvalTick(CaptureBaseline(LogCheck(TRUE, {}),
                                            BaselinePending(TRUE, FALSE), TRUE, Identity),
                            dyaw, dpitch, audio)} :
           /\ alarm_states' = [i \in 1..Len(c2.st) |->
                                 RebaseAlarm(c2.st[i], alarms[i], elapsed_time_ms)]
           /\ events' = c2.ev
           /\ audio_cmds' = c2.cmds
           /\ logged' = logged \cup Notable(c2.ev)
    /\ center_reset_active' =
          IF InCenterWindow(dyaw, dpitch)
          THEN (center_reset_active
                \/ CenterResetFires(center_hold_timer_ms, center_reset_active,
                                    dyaw, dpitch))
          ELSE FALSE
    /\ center_hold_timer_ms' = IF InCenterWindow(dyaw, dpitch)
                               THEN Min(center_hold_timer_ms + PollMs,
                                        center_reset_hold_time_ms)
                               ELSE 0
    /\ condor_flight_active' = TRUE
    /\ iter' = "eval"
    /\ log_check_timer_ms' = IF CheckDue THEN 0 ELSE log_check_timer_ms + PollMs
    /\ ServeRecenter(BaselinePending(TRUE, FALSE), FALSE, TRUE, Identity)
    /\ UNCHANGED <<pc, alarms, widest_alarm_idx, widest_alarm_valid,
                   elapsed_time_ms, iterations, hwnd_valid, twin_states, observed,
                   hook>>
    /\ g_ovr_session' = TRUE
    /\ session_live' = TRUE

InitLive == InitWith({ <<LiveAlarm>> })

NextLive ==
    \/ Startup(TRUE)
    \/ \E smp \in LiveSamples, audio \in AudioInputs :
          LiveIteration(smp[1], smp[2], audio)

SpecLive == InitLive /\ [][NextLive]_vars /\ WF_vars(NextLive)

(***************************************************************************)
(* The window thread beside the core thread: the keyboard hook, the        *)
(* destruction of the window, and the end of app_core_logic                *)
(***************************************************************************)
ThreadIters == 5

\* faulty variant: the hook resets the idle times itself when it recenters
LowLevelKeyboardProc_Resets(hotkey, session) ==
    /\ hwnd_valid
    /\ hook = "idle"
    /\ session = g_ovr_session
    /\ g_request_software_recenter' =
          (g_request_software_recenter \/ (hotkey /\ session))
    /\ alarm_states' = [i \in 1..Len(alarm_states) |->
                          IF hotkey /\ session
                          THEN [alarm_states[i] EXCEPT !.noLookTime_ms = 0]
                          ELSE alarm_states[i]]
    /\ UNCHANGED <<pc, alarms, widest_alarm_idx, widest_alarm_valid,
                   elapsed_time_ms, log_check_timer_ms, condor_flight_active,
                   center_hold_timer_ms, center_reset_active, iter, events,
                   audio_cmds, iterations, logged, hwnd_valid,
                   g_request_baseline_reset, last_should_recenter,
                   g_has_manual_recenter_offset,
                   g_baseline_reference, twin_states, observed, g_ovr_session,
                   session_live, hook>>

\* the hotkey: pressed with its modifiers while the simulation window is active
\* (hotkey); g_ovr_session is set (session)
LowLevelKeyboardProc(hotkey, session) ==
    /\ hwnd_valid
    /\ hook = "idle"
    /\ session = g_ovr_session
    /\ g_request_software_recenter' =
          (g_request_software_recenter \/ (hotkey /\ session))
    /\ UNCHANGED <<pc, alarms, widest_alarm_idx, widest_alarm_valid, alarm_states,
                   elapsed_time_ms, log_check_timer_ms, condor_flight_active,
                   center_hold_timer_ms, center_reset_active, iter, events,
                   audio_cmds, iterations, logged, hwnd_valid,
                   g_request_baseline_reset, last_should_recenter,
                   g_has_manual_recenter_offset,
                   g_baseline_reference, twin_states, observed, g_ovr_session,
                   session_live, hook>>

\* Exit of the tray menu: DestroyWindow(hwnd), after which IsWindow(g_hwnd) fails
DestroyWindow ==
    /\ hwnd_valid
    /\ hook = "idle"
    /\ hwnd_valid' = FALSE
    /\ UNCHANGED <<pc, alarms, widest_alarm_idx, widest_alarm_valid, alarm_states,
                   elapsed_time_ms, log_check_timer_ms, condor_flight_active,
                   center_hold_timer_ms, center_reset_active, iter, events,
                   audio_cmds, iterations, logged, g_request_software_recenter,
                   g_request_baseline_reset, last_should_recenter,
                   g_has_manual_recenter_offset,
                   g_baseline_reference, twin_states, observed, g_ovr_session,
                   session_live, hook>>

\* faulty variant: only the players that are playing are stopped and deleted
ShutdownCleanup_PlayingOnly(c) ==
    LET RECURSIVE Go(_, _)
        Go(cc, i) ==
            IF i > Len(c.st) THEN cc
            ELSE Go(IF i \in Playing(c.st)
                    THEN [Call(Call(cc, i, "stop", 0), i, "delete", 0)
                            EXCEPT !.st[i].sound_player = NoPlayer]
                    ELSE cc,
                    i + 1)
    IN  Go(c, 1)

\* the players are stopped and deleted after the loop
ShutdownCleanup(c) ==
    LET RECURSIVE Go(_, _)
        Go(cc, i) ==
            IF i > Len(c.st) THEN cc
            ELSE Go(IF c.st[i].sound_player.present
                    THEN [Call(Call(cc, i, "stop", 0), i, "delete", 0)
                            EXCEPT !.st[i].sound_player = NoPlayer]
                    ELSE cc,
                    i + 1)
    IN  Go(c, 1)

\* the window was closed while the core was still waiting for the HMD
StartupClosed ==
    /\ pc = "startup"
    /\ ~hwnd_valid
    /\ pc' = "done"
    /\ UNCHANGED <<alarms, widest_alarm_idx, widest_alarm_valid, alarm_states,
                   elapsed_time_ms, log_check_timer_ms, condor_flight_active,
                   center_hold_timer_ms, center_reset_active, iter, events,
                   audio_cmds, iterations, logged, hwnd_valid,
                   g_request_software_recenter, g_request_baseline_reset,
                   last_should_recenter, g_has_manual_recenter_offset,
                   g_baseline_reference, twin_states, observed, g_ovr_session,
                   session_live, hook>>

\* the loop condition fails: the rest of app_core_logic
Shutdown ==
    /\ pc = "loop"
    /\ ~hwnd_valid
    /\ pc' = "done"
    /\ \E c \in {ShutdownCleanup(Carrier(alarm_states))} :
           /\ alarm_states' = c.st
           /\ audio_cmds' = c.cmds
           /\ events' = c.ev
    /\ iter' = "shutdown"
    /\ UNCHANGED <<alarms, widest_alarm_idx, widest_alarm_valid, elapsed_time_ms,
                   log_check_timer_ms, condor_flight_active, center_hold_timer_ms,
                   center_reset_active, iterations, logged, hwnd_valid,
                   g_request_software_recenter, g_request_baseline_reset,
                   last_should_recenter, g_has_manual_recenter_offset,
                   g_baseline_reference, twin_states, observed, g_ovr_session, hook>>
    /\ session_live' = FALSE

ThreadSamples == { <<0, 0>>, <<70, 0>>, <<-70, -10>> }

InitThreads == InitWith({ <<Wide, Narrow>>, <<>> })

CoreNext ==
    \/ \E sim \in BOOLEAN : Startup(sim)
    \/ StartupClosed
    \/ \E sim \in SimInputs : \E fin \in FinInputs(sim) :
          InactiveIteration(ThreadIters, sim, fin)
    \/ \E sim \in SimInputs, fin \in SUBSET Playing(alarm_states) :
          SessionLostIteration(ThreadIters, sim, FALSE, Identity, fin)
    \/ \E sim \in SimInputs : HmdNotReadyIteration(ThreadIters, sim, FALSE, Identity)
    \/ \E sim \in SimInputs, smp \in ThreadSamples, audio \in AudioInputs :
          EvalIteration(ThreadIters, sim, FALSE, Identity, smp[1], smp[2], audio)
    \/ Shutdown

WindowNext ==
    \/ \E hotkey \in BOOLEAN, session \in BOOLEAN :
          LowLevelKeyboardProc(hotkey, session)
    \/ DestroyWindow

NextThreads == CoreNext \/ WindowNext

\* the core thread keeps running: its sleeps end
SpecThreads == InitThreads /\ [][NextThreads]_vars /\ WF_vars(CoreNext)

(***************************************************************************)
(* SpecSession: the core thread and the keyboard hook, step by step where  *)
(* they share g_ovr_session.  The hook tests the handle and then calls     *)
(* ovr_RecenterTrackingOrigin on it; the core thread destroys the session  *)
(* and then clears the handle.  Nothing orders the two threads.            *)
(***************************************************************************)
SessionIters == 4

\* if (g_ovr_session), the hotkey pressed with the simulation window active
HookCheck ==
    /\ hwnd_valid
    /\ hook = "idle"
    /\ g_ovr_session
    /\ hook' = "checked"
    /\ UNCHANGED <<pc, alarms, widest_alarm_idx, widest_alarm_valid, alarm_states,
                   elapsed_time_ms, log_check_timer_ms, condor_flight_active,
                   center_hold_timer_ms, center_reset_active, iter, events,
                   audio_cmds, iterations, logged, hwnd_valid,
                   g_request_software_recenter, g_request_baseline_reset,
                   last_should_recenter, g_has_manual_recenter_offset,
                   g_baseline_reference, twin_states, observed, g_ovr_session,
                   session_live>>

\* ovr_RecenterTrackingOrigin(g_ovr_session): the handle is read again, and the
\* call is made on nullptr, on a live session or on a destroyed one
HookCall ==
    /\ hook = "checked"
    /\ hook' = IF ~g_ovr_session THEN "call_null"
               ELSE IF session_live THEN "call_live" ELSE "call_destroyed"
    /\ UNCHANGED <<pc, alarms, widest_alarm_idx, widest_alarm_valid, alarm_states,
                   elapsed_time_ms, log_check_timer_ms, condor_flight_active,
                   center_hold_timer_ms, center_reset_active, iter, events,
                   audio_cmds, iterations, logged, hwnd_valid,
                   g_request_software_recenter, g_request_baseline_reset,
                   last_should_recenter, g_has_manual_recenter_offset,
                   g_baseline_reference, twin_states, observed, g_ovr_session,
                   session_live>>

\* the call returns (a call on a destroyed session may also never return) and
\* the software recenter is requested
HookReturn ==
    /\ hook \in {"call_null", "call_live", "call_destroyed"}
    /\ hook' = "idle"
    /\ g_request_software_recenter' = TRUE
    /\ UNCHANGED <<pc, alarms, widest_alarm_idx, widest_alarm_valid, alarm_states,
                   elapsed_time_ms, log_check_timer_ms, condor_flight_active,
                   center_hold_timer_ms, center_reset_active, iter, events,
                   audio_cmds, iterations, logged, hwnd_valid,
                   g_request_baseline_reset, last_should_recenter,
                   g_has_manual_recenter_offset, g_baseline_reference, twin_states,
                   observed, g_ovr_session, session_live>>

\* the session-lost iteration up to ovr_Destroy(session); the resets that follow
\* the clearing of the handle touch nothing that the hook reads
SessionLostDestroy(maxIters, sim, fin) ==
    /\ session_live
    /\ SessionLostIterationCore(maxIters, sim, FALSE, Identity, fin)
    /\ UNCHANGED g_ovr_session

\* g_ovr_session = nullptr
SessionLostClear ==
    /\ pc = "loop"
    /\ g_ovr_session /\ ~session_live
    /\ g_ovr_session' = FALSE
    /\ UNCHANGED <<pc, alarms, widest_alarm_idx, widest_alarm_valid, alarm_states,
                   elapsed_time_ms, log_check_timer_ms, condor_flight_active,
                   center_hold_timer_ms, center_reset_active, iter, events,
                   audio_cmds, iterations, logged, hwnd_valid,
                   g_request_software_recenter, g_request_baseline_reset,
                   last_should_recenter, g_has_manual_recenter_offset,
                   g_baseline_reference, twin_states, observed, session_live, hook>>

\* the core thread is not between ovr_Destroy and the clearing of the handle
BetweenIterations == g_ovr_session => session_live

NextSession ==
    \/ \E sim \in BOOLEAN : Startup(sim)
    \/ StartupClosed
    \/ \E sim \in SimInputs : \E fin \in FinInputs(sim) :
          BetweenIterations /\ InactiveIteration(SessionIters, sim, fin)
    \/ \E sim \in SimInputs, fin \in SUBSET Playing(alarm_states) :
          SessionLostDestroy(SessionIters, sim, fin)
    \/ SessionLostClear
    \/ \E sim \in SimInputs :
          BetweenIterations /\ HmdNotReadyIteration(SessionIters, sim, FALSE, Identity)
    \/ \E sim \in SimInputs, smp \in ThreadSamples, audio \in AudioInputs :
          /\ BetweenIterations
          /\ EvalIteration(SessionIters, sim, FALSE, Identity, smp[1], smp[2], audio)
    \/ BetweenIterations /\ Shutdown
    \/ HookCheck
    \/ HookCall
    \/ HookReturn
    \/ DestroyWindow

SpecSession == InitWith({ <<Wide>> }) /\ [][NextSession]_vars

(***************************************************************************)
(* SpecTwin: two runs side by side on the same samples; in the second one  *)
(* (twin_states) no sound player can ever be created                       *)
(***************************************************************************)
TwinIters == 8

TwinSamples == { <<0, 0>>, <<30, 0>>, <<70, 0>>, <<-70, -10>>, <<70, 35>> }

TwinIteration(dyaw, dpitch, audio) ==
    /\ EvalIterationCore(TwinIters, TRUE, FALSE, Identity, dyaw, dpitch, audio)
    /\ twin_states' = EvalTick(Carrier(twin_states), dyaw, dpitch, "no_player").st
    /\ UNCHANGED observed

InitTwin == InitWith({ <<Wide>> })

NextTwin ==
    \/ Startup(TRUE)
    \/ \E smp \in TwinSamples, audio \in AudioInputs :
          TwinIteration(smp[1], smp[2], audio)

SpecTwin == InitTwin /\ [][NextTwin]_vars

(***************************************************************************)
(* SpecSolo: several alarms evaluated in one loop, and beside them         *)
(* (twin_states) every alarm evaluated on its own on the same samples, the *)
(* narrower ones being reset when the widest one succeeds                  *)
(***************************************************************************)
SoloIters == 6

SoloSettings == { <<Narrow, Wide, Narrow>>, <<Wide, Level>>, <<Level, Narrow>> }

\* the center reset and the for-loop body for one alarm alone
SoloTick(s, cfg, dyaw, dpitch, audio) ==
    EvaluateAlarm(
        IF CenterResetFires(center_hold_timer_ms, center_reset_active, dyaw, dpitch)
        THEN Carrier(CenterReset(<<s>>, <<cfg>>))
        ELSE Carrier(<<s>>),
        <<cfg>>, 1, elapsed_time_ms, dyaw, dpitch, audio, FALSE, 0)

\* alarm j alone, with the reset that the widest alarm's success brings at the
\* widest alarm's place in the order
SoloState(j, dyaw, dpitch, audio) ==
    LET w    == widest_alarm_idx
        hit  == /\ widest_alarm_valid
                /\ j # w
                /\ Enabled(alarms[j])
                /\ alarms[j].min_horizontal_angle < alarms[w].min_horizontal_angle
                /\ \E e \in SoloTick(twin_states[w], alarms[w], dyaw, dpitch, audio).ev :
                       e[2] = "success"
    IN  IF ~hit THEN SoloTick(twin_states[j], alarms[j], dyaw, dpitch, audio).st[1]
        ELSE IF j < w
        THEN ResetState(SoloTick(twin_states[j], alarms[j], dyaw, dpitch, audio).st[1])
        ELSE SoloTick(ResetState(twin_states[j]), alarms[j], dyaw, dpitch, audio).st[1]

SoloIteration(dyaw, dpitch, audio) ==
    /\ EvalIterationCore(SoloIters, TRUE, FALSE, Identity, dyaw, dpitch, audio)
    /\ twin_states' = [j \in 1..Len(alarms) |-> SoloState(j, dyaw, dpitch, audio)]
    /\ UNCHANGED observed

NextSolo ==
    \/ Startup(TRUE)
    \/ \E smp \in PairLoopSamples, audio \in AudioInputs :
          SoloIteration(smp[1], smp[2], audio)

SpecSolo == InitWith(SoloSettings) /\ [][NextSolo]_vars

(***************************************************************************)
(* SpecObserved: evaluated ticks of a narrow and a wide alarm, the run     *)
(* recording the samples of the last two ticks                             *)
(***************************************************************************)
ObservedIters == 6

ObservedSamples == { <<0, 0>>, <<70, 0>>, <<70, 35>>, <<-70, -10>>, <<-70, 0>> }

ObservedIteration(dyaw, dpitch, audio) ==
    /\ EvalIterationCore(ObservedIters, TRUE, FALSE, Identity, dyaw, dpitch, audio)
    /\ observed' = IF observed = <<>> THEN << <<dyaw, dpitch>> >>
                   ELSE <<observed[Len(observed)], <<dyaw, dpitch>>>>
    /\ UNCHANGED twin_states

NextObserved ==
    \/ Startup(TRUE)
    \/ \E smp \in ObservedSamples, audio \in AudioInputs :
          ObservedIteration(smp[1], smp[2], audio)

SpecObserved == InitWith({ <<Narrow, Wide>> }) /\ [][NextObserved]_vars

(***************************************************************************)
(* SpecConfig: the whole loop under settings with disabled alarms          *)
(***************************************************************************)
ConfigIters == 5

\* disabled by its horizontal span; disabled by its two vertical spans (and
\* wider than every other alarm); enabled with one vertical span of 0
Off        == LookoutAlarmConfig(0, 20, 5, 100, 100, 100, 100, 5, 100, 150)
NoVertical == LookoutAlarmConfig(150, 0, -5, 100, 100, 100, 100, 5, 100, 150)
UpOnly     == LookoutAlarmConfig(60, 30, 0, 50, 50, 50, 150, 10, 50, 100)

ConfigSettings == { <<>>, <<Off>>, <<NoVertical, Off>>, <<Wide, Off>>,
                    <<NoVertical, Wide>>, <<UpOnly, NoVertical>> }

ConfigSamples == { <<0, 0>>, <<80, 35>>, <<-80, -10>> }

InitConfig == InitWith(ConfigSettings)

NextConfig ==
    \/ \E sim \in BOOLEAN : Startup(sim)
    \/ \E sim \in SimInputs : \E fin \in FinInputs(sim) :
          InactiveIteration(ConfigIters, sim, fin)
    \/ \E sim \in SimInputs, fin \in SUBSET Playing(alarm_states) :
          SessionLostIteration(ConfigIters, sim, FALSE, Identity, fin)
    \/ \E sim \in SimInputs : HmdNotReadyIteration(ConfigIters, sim, FALSE, Identity)
    \/ \E sim \in SimInputs, smp \in ConfigSamples, audio \in AudioInputs :
          EvalIteration(ConfigIters, sim, FALSE, Identity, smp[1], smp[2], audio)

SpecConfig == InitConfig /\ [][NextConfig]_vars

(***************************************************************************)
(* SpecRecenter: the whole loop with a wide and a narrow alarm and a       *)
(* headset whose ShouldRecenter flag goes up and down                      *)
(***************************************************************************)
RecenterIters == 5

\* the orientations the headset reports in an iteration with a baseline
\* request (the orientation is read nowhere else)
HeadPoses(pending) == IF pending THEN {Identity, 1} ELSE {Identity}

NextRecenter ==
    \/ \E sim \in BOOLEAN : Startup(sim)
    \/ \E sim \in SimInputs : \E fin \in FinInputs(sim) :
          InactiveIteration(RecenterIters, sim, fin)
    \/ \E sim \in SimInputs, recenter \in BOOLEAN, fin \in SUBSET Playing(alarm_states) :
       \E pose \in HeadPoses(BaselinePending(sim, recenter)) :
          SessionLostIteration(RecenterIters, sim, recenter, pose, fin)
    \/ \E sim \in SimInputs, recenter \in BOOLEAN :
       \E pose \in HeadPoses(BaselinePending(sim, recenter)) :
          HmdNotReadyIteration(RecenterIters, sim, recenter, pose)
    \/ \E sim \in SimInputs, recenter \in BOOLEAN, smp \in PairLoopSamples,
          audio \in AudioInputs :
       \E pose \in HeadPoses(BaselinePending(sim, recenter)) :
          EvalIteration(RecenterIters, sim, recenter, pose, smp[1], smp[2], audio)

SpecRecenter == InitWith({ <<Wide, Narrow>> }) /\ [][NextRecenter]_vars

(***************************************************************************)
(* SpecScan: the startup alone, for every list of up to MaxAlarms alarms   *)
(* taken from six settings, three of which end up disabled or tied         *)
(***************************************************************************)
MaxAlarms == 3

ScanSettings ==
    UNION {[1..n -> {Off, NoVertical, UpOnly, Narrow, Level, Wide}] : n \in 0..MaxAlarms}

SpecScan == InitWith(ScanSettings) /\ [][\E sim \in BOOLEAN : Startup(sim)]_vars

(***************************************************************************)
(* SpecRamp: a warning that is left to sound through its volume ramp, for  *)
(* a rising ramp, a falling ramp, no ramp time and equal volumes           *)
(***************************************************************************)
RampIters == 60

RampAlarm(sv, ev, ramp) ==
    LookoutAlarmConfig(120, 20, 5, 2 * PollMs, 2 * PollMs, 2 * PollMs, 2 * PollMs,
                       sv, ev, ramp)

RampSettings ==
    { <<RampAlarm(0, 100, 100 * PollMs)>>, <<RampAlarm(100, 0, 100 * PollMs)>>,
      <<RampAlarm(5, 100, 0)>>, <<RampAlarm(40, 40, 100 * PollMs)>> }

\* the head stays ahead, or glances left once the warning is old
RampSamples(now) == IF now = 20 * PollMs THEN { <<0, 0>>, <<70, 0>> } ELSE { <<0, 0>> }

InitRamp == InitWith(RampSettings)

NextRamp ==
    \/ Startup(TRUE)
    \/ \E smp \in RampSamples(elapsed_time_ms), audio \in AudioInputs :
          EvalIteration(RampIters, TRUE, FALSE, Identity, smp[1], smp[2], audio)

SpecRamp == InitRamp /\ [][NextRamp]_vars

(***************************************************************************)
(* Vocabulary of the properties.  A step of the loop is read through the   *)
(* state before it (unprimed), the state after it (primed) and the lines   *)
(* it logged (events').                                                    *)
(***************************************************************************)
Alarms == 1..Len(alarm_states)
EnabledAlarms == {i \in Alarms : alarms[i].min_horizontal_angle > 0}

LoopStep == pc = "loop" /\ iterations' = iterations + 1
EvalStep == LoopStep /\ iter' = "eval"

Logged(i, tag) == \E e \in events' : e[1] = i /\ e[2] = tag
Called(i, op) == \E k \in 1..Len(audio_cmds') : audio_cmds'[k][1] = i /\ audio_cmds'[k][2] = op

\* the tick's time: elapsed_time_ms is advanced at the end of the iteration
Now == elapsed_time_ms

\* alarm i as its evaluation found it: after the center reset of this tick and
\* after a cascade of an alarm evaluated before it
ClearedBefore(i) ==
    \/ Logged(0, "center_reset")
    \/ (Logged(i, "cascade") /\ widest_alarm_idx < i)
ResetBefore(i) == Logged(i, "cascade") /\ widest_alarm_idx < i

EntryLeft(i)  == alarm_states[i].looked_left_ever /\ ~ClearedBefore(i)
EntryRight(i) == alarm_states[i].looked_right_ever /\ ~ClearedBefore(i)
EntryUp(i)    == alarm_states[i].looked_up_ever /\ ~ClearedBefore(i)
EntryDown(i)  == alarm_states[i].looked_down_ever /\ ~ClearedBefore(i)
EntryIdle(i)    == IF ResetBefore(i) THEN 0 ELSE alarm_states[i].noLookTime_ms
EntryWarning(i) == alarm_states[i].warning_triggered /\ ~ResetBefore(i)
EntrySilence(i) == IF ResetBefore(i) THEN 0 ELSE alarm_states[i].alarm_silence_until_ms

\* the flags and crossing times once this tick's sample is registered
SeenLeft(i)  == EntryLeft(i) \/ Logged(i, "L")
SeenRight(i) == EntryRight(i) \/ Logged(i, "R")
SeenUp(i)    == EntryUp(i) \/ Logged(i, "U")
SeenDown(i)  == EntryDown(i) \/ Logged(i, "D")
LeftTime(i)  == IF Logged(i, "L") THEN Now ELSE alarm_states[i].left_ever_time_ms
RightTime(i) == IF Logged(i, "R") THEN Now ELSE alarm_states[i].right_ever_time_ms
AllFour(i)   == SeenLeft(i) /\ SeenRight(i) /\ SeenUp(i) /\ SeenDown(i)
CrossingGap(i) == Abs(LeftTime(i) - RightTime(i))

\* the tick resolves alarm i's four flags to SUCCESS / to PARTIAL
SuccessCase(i) == AllFour(i) /\ CrossingGap(i) >= alarms[i].min_lookout_time_ms
PartialCase(i) == AllFour(i) /\ CrossingGap(i) < alarms[i].min_lookout_time_ms

\* alarm i is reset by the cascade after its own evaluation in this tick
ResetAfter(i) == Logged(i, "cascade") /\ widest_alarm_idx > i

FlagsCleared(s) ==
    /\ ~s.looked_left_ever /\ ~s.looked_right_ever
    /\ ~s.looked_up_ever /\ ~s.looked_down_ever
    /\ s.left_ever_time_ms = TimeUnset /\ s.right_ever_time_ms = TimeUnset

FullyReset(s) ==
    /\ s.noLookTime_ms = 0 /\ ~s.warning_triggered /\ s.repeat_timer_ms = 0
    /\ FlagsCleared(s)
    /\ s.alarm_silence_until_ms = 0
    /\ ~s.sound_player.playing

(***************************************************************************)
(* C3: SUCCESS is a full reset.  In an evaluated tick in which an alarm    *)
(* has all four flags and |left - right| >= min_lookout_time_ms, the alarm *)
(* ends its evaluation with idle time 0, no warning, repeat timer 0, all   *)
(* flags false, both times unset, the silence window cleared and its       *)
(* player, if it has one, stopped.                                         *)
(***************************************************************************)
C3_SuccessIsFullReset ==
    [][EvalStep =>
        \A i \in EnabledAlarms :
            SuccessCase(i) =>
               /\ FullyReset(alarm_states'[i])
               /\ (alarm_states[i].sound_player.present => Called(i, "stop"))]_vars

C3_Witness ==
    \E e \in events :
        /\ e[2] = "success"
        /\ alarm_states[e[1]].sound_player.present
        /\ <<e[1], "stop", 0>> \in {audio_cmds[k] : k \in 1..Len(audio_cmds)}

(***************************************************************************)
(* C4: with all four flags set the outcome depends only on the gap between *)
(* the two crossing times, compared inclusively: SUCCESS when the gap is   *)
(* at least min_lookout_time_ms (so also when it is equal), PARTIAL when   *)
(* it is smaller, whichever side was crossed first.                        *)
(***************************************************************************)
C4_SuccessDecision ==
    [][EvalStep =>
        \A i \in EnabledAlarms :
            /\ Logged(i, "success") <=> SuccessCase(i)
            /\ Logged(i, "partial") <=> PartialCase(i)
            /\ \A e \in events' :
                  (e[1] = i /\ e[2] \in {"success", "partial"}) => e[3] = CrossingGap(i)]_vars

\* a SUCCESS whose gap is exactly min_lookout_time_ms
C4_Witness ==
    \E e \in events :
        e[2] = "success" /\ e[3] = alarms[e[1]].min_lookout_time_ms

(***************************************************************************)
(* C7: PARTIAL changes only the horizontal tracking state.  As claimed: in *)
(* every evaluated tick in which an alarm has all four flags and a gap     *)
(* below min_lookout_time_ms, the alarm ends the tick with the left/right  *)
(* flags and times cleared, the up/down flags still true, the idle time    *)
(* advanced by the poll period (not reset) and the warning flag unchanged. *)
(***************************************************************************)
HorizontalCleared(s) ==
    /\ ~s.looked_left_ever /\ ~s.looked_right_ever
    /\ s.left_ever_time_ms = TimeUnset /\ s.right_ever_time_ms = TimeUnset

C7_PartialKeepsVertical_Claimed ==
    [][EvalStep =>
        \A i \in EnabledAlarms :
            PartialCase(i) =>
               /\ HorizontalCleared(alarm_states'[i])
               /\ alarm_states'[i].looked_up_ever /\ alarm_states'[i].looked_down_ever
               /\ alarm_states'[i].noLookTime_ms = EntryIdle(i) + PollMs
               /\ alarm_states'[i].warning_triggered = EntryWarning(i)]_vars

(***************************************************************************)
(* C7 (amended): the same, unless the warning is triggered in that tick    *)
(* (the idle threshold is reached outside the silence window), in which    *)
(* case the trigger also clears the up/down flags and sets the warning     *)
(* flag, or the alarm is reset later in the tick by the widest alarm's     *)
(* cascade.  The idle time is advanced by one poll period either way.      *)
(***************************************************************************)
C7_PartialKeepsVertical ==
    [][EvalStep =>
        \A i \in EnabledAlarms :
            (PartialCase(i) /\ ~ResetAfter(i)) =>
               /\ HorizontalCleared(alarm_states'[i])
               /\ alarm_states'[i].noLookTime_ms = EntryIdle(i) + PollMs
               /\ IF Logged(i, "triggered")
                  THEN /\ alarm_states'[i].warning_triggered
                       /\ ~alarm_states'[i].looked_up_ever
                       /\ ~alarm_states'[i].looked_down_ever
                  ELSE /\ alarm_states'[i].warning_triggered = EntryWarning(i)
                       /\ alarm_states'[i].looked_up_ever
                       /\ alarm_states'[i].looked_down_ever]_vars

\* a PARTIAL tick that leaves the vertical flags standing
C7_Witness ==
    \E e \in events :
        /\ e[2] = "partial"
        /\ alarm_states[e[1]].looked_up_ever /\ alarm_states[e[1]].looked_down_ever
        /\ alarm_states[e[1]].noLookTime_ms > PollMs

(***************************************************************************)
(* C8: full-cycle round trip.  As claimed: whatever min_lookout_time_ms    *)
(* and whatever the head does between the glances, the tick of the right   *)
(* crossing reports SUCCESS and leaves the alarm fully reset.              *)
(***************************************************************************)
AfterRightCrossing == pc = "loop" /\ elapsed_time_ms = CycleRightMs + PollMs

CycleSucceeded ==
    /\ \E e \in events : e[1] = 1 /\ e[2] = "success"
    /\ FullyReset(alarm_states[1])

CycleUndisturbed == <<0, "center_reset">> \notin logged /\ <<1, "triggered">> \notin logged

WidestSucceeds == widest_alarm_valid /\ Logged(widest_alarm_idx, "success")

Narrower ==
    {j \in EnabledAlarms :
        /\ j # widest_alarm_idx
        /\ alarms[j].min_horizontal_angle < alarms[widest_alarm_idx].min_horizontal_angle}

StoppedIfPlayer(j) == alarm_states[j].sound_player.present => Called(j, "stop")

C9_Cascade_Claimed ==
    [][(EvalStep /\ WidestSucceeds) =>
        \A j \in Narrower : FullyReset(alarm_states'[j]) /\ StoppedIfPlayer(j)]_vars

(***************************************************************************)
(* C9 (amended): the narrower alarms are reset at the moment the widest    *)
(* alarm succeeds.  One that precedes the widest in configuration order    *)
(* ends the tick fully reset.  One that follows it is then evaluated in    *)
(* the same tick from the reset state: it ends the tick with an idle time  *)
(* of one poll period and with only the flags, the silence window and the  *)
(* warning that this tick's own sample gives it.                           *)
(***************************************************************************)
FreshAfterOneTick(j) ==
    LET s == alarm_states'[j]
    IN  /\ s.noLookTime_ms = PollMs
        /\ s.looked_left_ever => (Logged(j, "L") /\ s.left_ever_time_ms = Now)
        /\ s.looked_right_ever => (Logged(j, "R") /\ s.right_ever_time_ms = Now)
        /\ s.looked_up_ever => Logged(j, "U")
        /\ s.looked_down_ever => Logged(j, "D")
        /\ ~s.looked_left_ever => s.left_ever_time_ms = TimeUnset
        /\ ~s.looked_right_ever => s.right_ever_time_ms = TimeUnset
        /\ s.alarm_silence_until_ms # 0 =>
              /\ Logged(j, "silence")
              /\ s.alarm_silence_until_ms = Now + alarms[j].silence_after_look_ms
        /\ s.warning_triggered =>
              (Logged(j, "triggered") /\ s.warning_start_time_ms = Now)
        /\ s.repeat_timer_ms = 0

C9_Cascade ==
    [][(EvalStep /\ WidestSucceeds) =>
        \A j \in Narrower :
            /\ Logged(j, "cascade")
            /\ StoppedIfPlayer(j)
            /\ IF j < widest_alarm_idx
               THEN FullyReset(alarm_states'[j])
               ELSE FreshAfterOneTick(j)]_vars

\* the widest alarm has just reset a narrower alarm that comes after it and had
\* a warning sounding
C9_Witness ==
    \E e \in events :
        /\ e[2] = "cascade" /\ e[1] > widest_alarm_idx
        /\ <<widest_alarm_idx, "success">> \in {<<x[1], x[2]>> : x \in events}
        /\ <<e[1], "triggered">> \in logged
        /\ alarm_states[e[1]].noLookTime_ms = PollMs

(***************************************************************************)
(* C10: when the flight ends (the activity gate goes from active to        *)
(* inactive) every alarm is forced to idle in that iteration: stop() is    *)
(* called on every player that is playing, and every alarm, enabled or     *)
(* not, ends with no warning, idle time 0, repeat timer 0, all flags and   *)
(* times cleared and the silence window cleared.                           *)
(***************************************************************************)
GateDeactivates == LoopStep /\ condor_flight_active /\ ~condor_flight_active'

StillPlaying(i) ==
    /\ alarm_states[i].sound_player.present
    /\ alarm_states[i].sound_player.playing
    /\ ~Logged(i, "sound_ended")

C10_GateDeactivation ==
    [][GateDeactivates =>
        /\ Logged(0, "flight_end")
        /\ \A i \in Alarms :
              /\ FullyReset(alarm_states'[i])
              /\ StillPlaying(i) => Called(i, "stop")]_vars

\* the flight has just ended under a sounding warning, whose player was stopped
C10_Witness ==
    /\ <<0, "flight_end", 0>> \in events
    /\ <<1, "triggered">> \in logged
    /\ <<1, "stop", 0>> \in {audio_cmds[k] : k \in 1..Len(audio_cmds)}
    /\ ~condor_flight_active

(***************************************************************************)
(* C2: persistence of the warning.  As claimed: an alarm's warning flag,   *)
(* once true, is cleared by no iteration other than one in which that      *)
(* alarm reaches SUCCESS or the flight ends (gate deactivation).           *)
(***************************************************************************)
\* the iteration cleared the flag: it is false afterwards, or it was set again
\* by a trigger, which only an alarm without warning gets
WarningCleared(i) ==
    /\ alarm_states[i].warning_triggered
    /\ (~alarm_states'[i].warning_triggered \/ Logged(i, "triggered"))

C2_WarningPersists_Claimed ==
    [][LoopStep =>
        \A i \in Alarms :
            WarningCleared(i) => (Logged(i, "success") \/ Logged(0, "flight_end"))]_vars

(***************************************************************************)
(* C2 (amended): the warning flag, once true, is cleared only by an        *)
(* iteration in which the alarm reaches SUCCESS, the flight ends, the      *)
(* widest alarm's success resets it through the cascade, or the HMD        *)
(* session is lost and cannot be re-created; a center reset, a silence     *)
(* window, a repeat or an unavailable sensor never clears it.              *)
(***************************************************************************)
C2_WarningPersists ==
    [][LoopStep =>
        \A i \in Alarms :
            WarningCleared(i) =>
               \/ Logged(i, "success")
               \/ Logged(0, "flight_end")
               \/ Logged(i, "cascade")
               \/ Logged(0, "session_lost")]_vars

\* a warning that has just lived through a center reset
C2_Witness ==
    \E i \in Alarms :
        /\ alarm_states[i].warning_triggered
        /\ <<0, "center_reset", 0>> \in events
        /\ <<i, "triggered", 0>> \notin events

(***************************************************************************)
(* C5: with a poll period of 50 ms and max_time_ms = 2000, a freshly reset *)
(* alarm whose samples never cross a threshold has its idle time grow by   *)
(* exactly one poll period per tick, has no warning after ticks 1..39, has *)
(* the warning from tick 40 on, and is triggered in tick 40 only.          *)
(***************************************************************************)
Tick == iterations + 1

C5_IdleEscalation ==
    [][EvalStep =>
        /\ alarm_states'[1].noLookTime_ms = alarm_states[1].noLookTime_ms + PollMs
        /\ alarm_states'[1].noLookTime_ms = Tick * PollMs
        /\ (Tick < 40 => ~alarm_states'[1].warning_triggered)
        /\ (Tick >= 40 => alarm_states'[1].warning_triggered)
        /\ (Logged(1, "triggered") <=> Tick = 40)]_vars

\* the state after tick 40
C5_Witness ==
    /\ iterations = 40
    /\ alarm_states[1].warning_triggered
    /\ alarm_states[1].noLookTime_ms = 2000
    /\ <<1, "triggered", 0>> \in events

(***************************************************************************)
(* C6: a warning whose idle threshold is reached inside a silence window   *)
(* is deferred, not dropped.  In every evaluated tick of an alarm without  *)
(* warning that has reached max_time_ms and does not succeed: if the time  *)
(* is before alarm_silence_until_ms the warning is not triggered and the   *)
(* idle time is kept; otherwise it is triggered in that very tick.  In the *)
(* scenario (glance at 1900, silence 5000) the window ends at 6900 and the *)
(* trigger comes in the tick whose time is 6900.                           *)
(***************************************************************************)
ThresholdReached(i) ==
    /\ ~EntryWarning(i)
    /\ EntryIdle(i) + PollMs >= alarms[i].max_time_ms
    /\ ~SuccessCase(i)
    /\ ~ResetAfter(i)

SilencedAt(i) == Now < alarm_states'[i].alarm_silence_until_ms

C6_DeferredWarning ==
    [][EvalStep =>
        \A i \in EnabledAlarms :
            /\ (ThresholdReached(i) /\ SilencedAt(i)) =>
                  /\ ~Logged(i, "triggered") /\ Logged(i, "deferred")
                  /\ ~alarm_states'[i].warning_triggered
                  /\ alarm_states'[i].noLookTime_ms = EntryIdle(i) + PollMs
            /\ (ThresholdReached(i) /\ ~SilencedAt(i)) =>
                  /\ Logged(i, "triggered")
                  /\ alarm_states'[i].warning_triggered
            /\ (Logged(i, "L") /\ Now = GlanceMs) =>
                  alarm_states'[i].alarm_silence_until_ms = 6900
            /\ (Logged(i, "triggered") /\ alarm_states'[i].alarm_silence_until_ms = 6900) =>
                  Now = 6900]_vars

\* the deferred warning of the scenario has just been triggered, at 6900
C6_Witness ==
    /\ <<1, "triggered", 0>> \in events
    /\ elapsed_time_ms = 6900 + PollMs
    /\ alarm_states[1].alarm_silence_until_ms = 6900
    /\ alarm_states[1].noLookTime_ms = 6950

(***************************************************************************)
(* C1: neglect is always escalated.  As claimed: with the flight active    *)
(* and the sensor available for ever (every iteration is an evaluated      *)
(* tick), an enabled alarm that never reaches SUCCESS eventually has its   *)
(* warning flag set, whatever the samples.                                 *)
(***************************************************************************)
Succeeded == \E e \in events : e[1] = 1 /\ e[2] = "success"
Warned == pc = "loop" /\ alarm_states[1].warning_triggered
CrossedSideways == \E e \in events : e[1] = 1 /\ e[2] \in {"L", "R"}

C1_NeglectEscalated_Claimed == ([]~Succeeded) => <>Warned

(***************************************************************************)
(* C1 (amended): ... eventually has its warning flag set, provided that    *)
(* from some point on no new left or right crossing is registered for it   *)
(* (each one opens a new silence window, and center resets and PARTIAL     *)
(* outcomes let the head register crossings again and again) and it is not *)
(* reset again and again by the widest alarm's cascade.                    *)
(***************************************************************************)
C1_NeglectEscalated == (([]~Succeeded) /\ <>[]~CrossedSideways) => <>Warned

\* a warning triggered although a glance had opened a silence window before
C1_Witness ==
    /\ pc = "loop"
    /\ \E e \in events : e[1] = 1 /\ e[2] = "triggered"
    /\ <<1, "deferred">> \in logged

(***************************************************************************)
(* C11: while the flight is inactive the evaluation is skipped.  In every  *)
(* iteration that leaves the flight inactive no play or volume call is     *)
(* made and every alarm is left clean (idle time 0, no warning, no flag,   *)
(* no silence window); if the flight was inactive before it too, no field  *)
(* of any alarm state changes.  An iteration that finds the flight active  *)
(* again therefore starts from clean alarm states.                         *)
(***************************************************************************)
Clean(s) ==
    /\ s.noLookTime_ms = 0 /\ ~s.warning_triggered /\ s.repeat_timer_ms = 0
    /\ FlagsCleared(s)
    /\ s.alarm_silence_until_ms = 0

NoAlertCommand ==
    \A k \in 1..Len(audio_cmds') : audio_cmds'[k][2] \notin {"play", "setVolume"}

C11_InactiveGate ==
    [][LoopStep =>
        /\ ~condor_flight_active' =>
              /\ iter' = "inactive"
              /\ NoAlertCommand
              /\ \A i \in Alarms : Clean(alarm_states'[i])
              /\ ~condor_flight_active => alarm_states' = alarm_states
        /\ (~condor_flight_active /\ condor_flight_active') =>
              \A i \in Alarms : Clean(alarm_states[i])]_vars

\* the first evaluated tick of a flight that follows one in which the warning
\* had been triggered
C11_Witness ==
    /\ iter = "eval" /\ <<0, "flight_start", 0>> \in events
    /\ <<0, "flight_end">> \in logged /\ <<1, "triggered">> \in logged
    /\ alarm_states[1].noLookTime_ms = PollMs
    /\ ~alarm_states[1].warning_triggered

(***************************************************************************)
(* C12: a tick without orientation sample leaves the alarm states alone.   *)
(* As claimed: in every iteration that ends at "HMD not ready" or at a     *)
(* lost session that cannot be re-created, no field of any alarm state     *)
(* changes.                                                                *)
(***************************************************************************)
SensorUnavailable == LoopStep /\ iter' \in {"hmd_not_ready", "session_lost"}

C12_SensorGap_Claimed == [][SensorUnavailable => alarm_states' = alarm_states]_vars

(***************************************************************************)
(* C12 (amended): an iteration that ends at "HMD not ready" changes no     *)
(* field of any alarm state and makes no player call.  An iteration in     *)
(* which the session is lost and cannot be re-created stops the players    *)
(* that are playing and sets, for every alarm, the warning flag to false   *)
(* and the idle time and the repeat timer to 0; the flags, the times, the  *)
(* warning start time and the silence window keep their values.            *)
(***************************************************************************)
AfterSessionLoss(s) ==
    [s EXCEPT !.warning_triggered = FALSE, !.noLookTime_ms = 0, !.repeat_timer_ms = 0,
              !.sound_player = [@ EXCEPT !.playing = FALSE]]

C12_SensorGap ==
    [][LoopStep =>
        /\ iter' = "hmd_not_ready" => (alarm_states' = alarm_states /\ audio_cmds' = <<>>)
        /\ iter' = "session_lost" =>
              \A i \in Alarms :
                  /\ alarm_states'[i] = AfterSessionLoss(alarm_states[i])
                  /\ StillPlaying(i) => Called(i, "stop")]_vars

\* the session has just been lost under a warning, with a flag standing
C12_Witness ==
    /\ iter = "session_lost"
    /\ <<1, "triggered">> \in logged
    /\ alarm_states[1].looked_left_ever
    /\ alarm_states[1].alarm_silence_until_ms > 0
    /\ ~alarm_states[1].warning_triggered

(***************************************************************************)
(* C13: once the window is destroyed no further iteration of the polling   *)
(* loop starts and app_core_logic comes to its end; the step that ends it  *)
(* stops and deletes the player of every alarm that has one, whatever the  *)
(* alarms were doing, and no alarm has a player once it has returned.      *)
(***************************************************************************)
Returns == pc = "loop" /\ pc' = "done"
Released(i) ==
    /\ alarm_states[i].sound_player.present =>
          (Called(i, "stop") /\ Called(i, "delete"))
    /\ ~alarm_states'[i].sound_player.present

C13_CleanStop ==
    /\ [][(LoopStep => hwnd_valid) /\ (Returns => \A i \in Alarms : Released(i))]_vars
    /\ [](pc = "done" => \A i \in Alarms : ~alarm_states[i].sound_player.present)
    /\ (~hwnd_valid ~> pc \in {"done", "failed"})

\* the loop ends after a session loss that silenced a warning whose player is
\* still held
C13_Witness ==
    /\ pc = "done" /\ iter = "shutdown"
    /\ <<1, "triggered">> \in logged /\ <<0, "session_lost">> \in logged
    /\ \E k \in 1..Len(audio_cmds) : audio_cmds[k] = <<1, "delete", 0>>

(***************************************************************************)
(* C17: the alarm states belong to the core thread.  A step of the window  *)
(* thread (the hotkey hook raising the recenter request, the destruction   *)
(* of the window) changes no alarm state and issues no player command; an  *)
(* alarm state changes only in a step of app_core_logic; and an evaluated  *)
(* tick evaluates every enabled alarm once: its idle time is 0 if the tick *)
(* reset it and has otherwise grown by exactly one poll period, and its    *)
(* player is started at most once.                                         *)
(***************************************************************************)
WindowStep ==
    \/ hwnd_valid' # hwnd_valid
    \/ g_request_software_recenter' /\ ~g_request_software_recenter
CoreStep == pc = "startup" \/ LoopStep \/ Returns
Plays(i) == {k \in 1..Len(audio_cmds') : audio_cmds'[k][1] = i /\ audio_cmds'[k][2] = "play"}
EvaluatedOnce(i) ==
    /\ alarm_states'[i].noLookTime_ms =
          IF SuccessCase(i) \/ ResetAfter(i) THEN 0 ELSE EntryIdle(i) + PollMs
    /\ Cardinality(Plays(i)) <= 1

C17_SingleOwner ==
    [][/\ WindowStep => (alarm_states' = alarm_states /\ audio_cmds' = audio_cmds)
       /\ alarm_states' # alarm_states => CoreStep
       /\ EvalStep => \A i \in EnabledAlarms : EvaluatedOnce(i)]_vars

\* the hotkey was pressed between two ticks while alarm 1 was warning
C17_Witness ==
    /\ g_request_software_recenter /\ hwnd_valid /\ iter = "eval"
    /\ alarm_states[1].warning_triggered /\ alarm_states[1].sound_player.playing
    /\ alarm_states[1].noLookTime_ms > alarms[1].max_time_ms

(***************************************************************************)
(* C14 (as claimed): run on the same samples, an alarm whose alert starts  *)
(* and an alarm that never gets a player have the same timing state after  *)
(* every tick.                                                             *)
(***************************************************************************)
TimingButRepeat(s) ==
    <<s.noLookTime_ms, s.warning_triggered, s.warning_start_time_ms,
      s.looked_left_ever, s.looked_right_ever, s.looked_up_ever, s.looked_down_ever,
      s.left_ever_time_ms, s.right_ever_time_ms, s.alarm_silence_until_ms>>
Timing(s) == <<TimingButRepeat(s), s.repeat_timer_ms>>
Twins == 1..Len(twin_states)

C14_TimingUnaffected_Claimed ==
    \A i \in Twins : Timing(alarm_states[i]) = Timing(twin_states[i])

(***************************************************************************)
(* C14 (amended): the two runs agree after every tick on the idle time,    *)
(* the warning flag and its start time, the four flags, the two crossing   *)
(* times and the silence window.  The repeat timer is the same as long as  *)
(* the first run holds no player; with a player it is not reset inside a   *)
(* silence window, so it can only be ahead of the timer of the run without *)
(* a player, which is reset whenever it reaches the interval.              *)
(***************************************************************************)
C14_TimingUnaffected ==
    \A i \in Twins :
        /\ TimingButRepeat(alarm_states[i]) = TimingButRepeat(twin_states[i])
        /\ ~twin_states[i].sound_player.present
        /\ ~alarm_states[i].sound_player.present =>
              alarm_states[i].repeat_timer_ms = twin_states[i].repeat_timer_ms
        /\ alarm_states[i].repeat_timer_ms # twin_states[i].repeat_timer_ms =>
              /\ alarm_states[i].warning_triggered
              /\ twin_states[i].repeat_timer_ms < alarms[i].repeat_interval_ms

\* a silenced warning with a player whose repeat timer has passed the interval
\* while the run without a player has reset its own
C14_Witness ==
    /\ iter = "eval" /\ alarm_states[1].warning_triggered
    /\ alarm_states[1].sound_player.present
    /\ elapsed_time_ms - PollMs < alarm_states[1].alarm_silence_until_ms
    /\ alarm_states[1].repeat_timer_ms >= alarms[1].repeat_interval_ms
    /\ twin_states[1].repeat_timer_ms = 0

(***************************************************************************)
(* C15 (as claimed): startup fails exactly when the settings hold no       *)
(* enabled alarm, be it that the list is empty or that every alarm in it   *)
(* is disabled.                                                            *)
(***************************************************************************)
ConfiguredOff(cfg) ==
    \/ cfg.min_horizontal_angle <= 0
    \/ (cfg.min_vertical_angle_up <= 0 /\ cfg.min_vertical_angle_down <= 0)
NoneEnabled == \A k \in 1..Len(alarms) : ConfiguredOff(alarms[k])
StartupEnds == pc = "startup" /\ pc' # "startup"

C15_NoEnabledIsFatal_Claimed ==
    [][StartupEnds => (pc' = "failed" <=> NoneEnabled)]_vars

(***************************************************************************)
(* C15 (amended): startup fails exactly when the list of alarms is empty.  *)
(* A list in which every alarm is disabled starts the loop with no valid   *)
(* widest alarm, and the loop then runs without ever changing an alarm     *)
(* state or calling a player; a disabled alarm beside an enabled one does  *)
(* not fail the startup either.                                            *)
(***************************************************************************)
C15_NoEnabledIsFatal ==
    /\ [][StartupEnds =>
            /\ pc' = "failed" <=> alarms = <<>>
            /\ (alarms # <<>> /\ NoneEnabled) => (pc' = "loop" /\ ~widest_alarm_valid')
            /\ ~NoneEnabled => (pc' = "loop" /\ widest_alarm_valid')]_vars
    /\ [][(LoopStep /\ NoneEnabled) =>
            /\ \A i \in Alarms : alarm_states'[i] = AlarmState
            /\ audio_cmds' = <<>>]_vars

\* the loop has evaluated ticks with every alarm disabled
C15_Witness ==
    /\ pc = "loop" /\ iter = "eval" /\ iterations >= 3
    /\ Len(alarms) = 2 /\ NoneEnabled /\ ~widest_alarm_valid

(***************************************************************************)
(* C16: an alarm whose horizontal span is <= 0, or whose vertical spans    *)
(* are both <= 0, is marked disabled at startup and stays out of the run:  *)
(* its state keeps the initial values (idle time 0, no warning, no flag,   *)
(* no player) after every iteration, no player call and no log line of an  *)
(* iteration is about it (so no cascade resets it), and it is never the    *)
(* widest alarm.                                                           *)
(***************************************************************************)
DisabledAlarms == Alarms \ EnabledAlarms
About(i) ==
    \/ \E e \in events' : e[1] = i
    \/ \E k \in 1..Len(audio_cmds') : audio_cmds'[k][1] = i

C16_DisabledExcluded ==
    /\ [][StartupEnds =>
            \A k \in 1..Len(alarms) :
                ConfiguredOff(alarms[k]) <=> ~Enabled(alarms'[k])]_vars
    /\ [][LoopStep => \A i \in DisabledAlarms : ~About(i)]_vars
    /\ [](pc = "loop" =>
            \A i \in DisabledAlarms :
                /\ alarm_states[i] = AlarmState
                /\ ~(widest_alarm_valid /\ widest_alarm_idx = i))

\* the enabled alarm has warned beside a disabled alarm of a wider span that
\* comes first in the list
C16_Witness ==
    /\ pc = "loop" /\ iter = "eval" /\ Len(alarms) = 2
    /\ alarms[1].min_vertical_angle_down < 0 /\ ~Enabled(alarms[1])
    /\ widest_alarm_valid /\ widest_alarm_idx = 2
    /\ alarm_states[2].warning_triggered /\ alarm_states[2].looked_left_ever

(***************************************************************************)
(* C18: in every iteration of the loop, an alarm's warning flag goes from  *)
(* false to true, and the alert of a new warning is started, only in an    *)
(* evaluated tick in which the alarm was not yet warning, its idle time    *)
(* (with this tick's poll period added) has reached max_time_ms and the    *)
(* tick's time is not before the end of its silence window (as this        *)
(* tick's sample left it).                                                 *)
(***************************************************************************)
Rises(i) == ~alarm_states[i].warning_triggered /\ alarm_states'[i].warning_triggered
IdleAtTest(i) == EntryIdle(i) + PollMs
SilenceAtTest(i) ==
    IF Logged(i, "silence") THEN Now + alarms[i].silence_after_look_ms
    ELSE EntrySilence(i)

C18_TriggerGuard ==
    [][LoopStep =>
        \A i \in Alarms :
            (Rises(i) \/ Logged(i, "triggered")) =>
                /\ iter' = "eval" /\ i \in EnabledAlarms
                /\ Logged(i, "triggered") /\ ~EntryWarning(i)
                /\ IdleAtTest(i) >= alarms[i].max_time_ms
                /\ Now >= SilenceAtTest(i)]_vars

\* a warning that started after its silence window had held it back
C18_Witness ==
    /\ iter = "eval" /\ <<1, "triggered", 0>> \in events
    /\ <<1, "deferred">> \in logged
    /\ alarm_states[1].warning_triggered
    /\ alarm_states[1].noLookTime_ms > alarms[1].max_time_ms
    /\ alarm_states[1].alarm_silence_until_ms = elapsed_time_ms - PollMs

(***************************************************************************)
(* C19 (as claimed): the tick in which an alarm enters WARNING leaves its  *)
(* idle time and its repeat timer at 0, the warning start at the tick's    *)
(* time and the flags and crossing times cleared, and a player that was    *)
(* obtained is playing at start_volume.                                    *)
(***************************************************************************)
Enters(i) == Logged(i, "triggered") /\ ~ResetAfter(i)
EntryEffects(i) ==
    /\ alarm_states'[i].warning_triggered
    /\ alarm_states'[i].repeat_timer_ms = 0
    /\ alarm_states'[i].warning_start_time_ms = Now
    /\ FlagsCleared(alarm_states'[i])
AlertStarted(i) ==
    LET p == alarm_states'[i].sound_player
        n == Len(audio_cmds')
    IN  p.present =>
          /\ p.playing /\ p.volume = alarms[i].start_volume
          /\ \E k \in 1..n : \E m \in 1..n :
                /\ k < m
                /\ audio_cmds'[k] = <<i, "setVolume", alarms[i].start_volume>>
                /\ audio_cmds'[m] = <<i, "play", alarms[i].start_volume>>

C19_WarningEntry_Claimed ==
    [][EvalStep =>
        \A i \in EnabledAlarms :
            Enters(i) => /\ alarm_states'[i].noLookTime_ms = 0
                         /\ EntryEffects(i)
                         /\ AlertStarted(i)]_vars

(***************************************************************************)
(* C19 (amended): the tick in which an alarm enters WARNING leaves its     *)
(* repeat timer at 0, the warning start at the tick's time and the flags   *)
(* and crossing times cleared.  The idle time is not reset: it keeps the   *)
(* value that reached max_time_ms and goes on growing during the warning.  *)
(* The silence window is left as it was.  A player kept from an earlier    *)
(* warning is stopped and deleted; if a new player can be created and      *)
(* started it plays at start_volume, otherwise the alarm warns without a   *)
(* player.                                                                 *)
(***************************************************************************)
C19_WarningEntry ==
    [][EvalStep =>
        \A i \in EnabledAlarms :
            Enters(i) => /\ alarm_states'[i].noLookTime_ms = IdleAtTest(i)
                         /\ alarm_states'[i].noLookTime_ms >= alarms[i].max_time_ms
                         /\ alarm_states'[i].alarm_silence_until_ms = SilenceAtTest(i)
                         /\ EntryEffects(i)
                         /\ AlertStarted(i)
                         /\ (alarm_states[i].sound_player.present /\ ~ResetBefore(i)) =>
                               (Called(i, "stop") /\ Called(i, "delete"))]_vars

\* a second warning of the alarm: the player of the first one is replaced
C19_Witness ==
    /\ iter = "eval" /\ <<1, "triggered", 0>> \in events
    /\ alarm_states[1].warning_triggered /\ alarm_states[1].sound_player.playing
    /\ alarm_states[1].noLookTime_ms >= alarms[1].max_time_ms
    /\ \E k \in 1..Len(audio_cmds) : audio_cmds[k] = <<1, "delete", 0>>

(***************************************************************************)
(* C20 (as claimed): after a tick that an alarm spends in WARNING its      *)
(* repeat timer is below repeat_interval_ms: a due repeat resets it, with  *)
(* an alert outside the silence window and without one inside.             *)
(***************************************************************************)
WarningContinues(i) == EntryWarning(i) /\ ~SuccessCase(i) /\ ~ResetAfter(i)
RepeatAtTest(i) == alarm_states[i].repeat_timer_ms + PollMs
RepeatDue(i) == RepeatAtTest(i) >= alarms[i].repeat_interval_ms
InSilence(i) == Now < SilenceAtTest(i)
HasPlayer(i) == alarm_states[i].sound_player.present
RampedVolume(i) == target_volume(alarms[i], Now - alarm_states[i].warning_start_time_ms)
Reissued(i) ==
    LET n == Len(audio_cmds')
    IN  \E k \in 1..n : \E m \in 1..n :
           /\ k < m
           /\ audio_cmds'[k] = <<i, "stop", RampedVolume(i)>>
           /\ audio_cmds'[m] = <<i, "play", RampedVolume(i)>>

C20_RepeatRule_Claimed ==
    [][EvalStep =>
        \A i \in EnabledAlarms :
            WarningContinues(i) =>
                alarm_states'[i].repeat_timer_ms < alarms[i].repeat_interval_ms]_vars

(***************************************************************************)
(* C20 (amended): in a tick that an alarm spends in WARNING the repeat     *)
(* timer grows by the poll period.  With a player and outside the silence  *)
(* window a due repeat stops and restarts the player at the ramped volume  *)
(* and resets the timer to 0.  With a player and inside the silence window *)
(* the player is only set to volume 0: nothing is played and the timer is  *)
(* not reset, so it can stay at or above repeat_interval_ms until the      *)
(* window ends.  Without a player a due repeat resets the timer to 0       *)
(* inside and outside the window and issues no player command.             *)
(***************************************************************************)
C20_RepeatRule ==
    [][EvalStep =>
        \A i \in EnabledAlarms :
            WarningContinues(i) =>
                /\ (HasPlayer(i) /\ InSilence(i)) =>
                      /\ alarm_states'[i].repeat_timer_ms = RepeatAtTest(i)
                      /\ ~Called(i, "play")
                      /\ alarm_states'[i].sound_player.volume = 0
                /\ (HasPlayer(i) /\ ~InSilence(i)) =>
                      /\ alarm_states'[i].sound_player.volume = RampedVolume(i)
                      /\ alarm_states'[i].repeat_timer_ms =
                            IF RepeatDue(i) THEN 0 ELSE RepeatAtTest(i)
                      /\ RepeatDue(i) <=> Reissued(i)
                      /\ RepeatDue(i) <=> Called(i, "play")
                /\ ~HasPlayer(i) =>
                      /\ alarm_states'[i].repeat_timer_ms =
                            IF RepeatDue(i) THEN 0 ELSE RepeatAtTest(i)
                      /\ \A k \in 1..Len(audio_cmds') : audio_cmds'[k][1] # i]_vars

\* a muted warning whose repeat timer has run past the interval
C20_Witness ==
    /\ iter = "eval" /\ alarm_states[1].warning_triggered
    /\ alarm_states[1].sound_player.present /\ alarm_states[1].sound_player.volume = 0
    /\ elapsed_time_ms - PollMs < alarm_states[1].alarm_silence_until_ms
    /\ alarm_states[1].repeat_timer_ms > alarms[1].repeat_interval_ms

(***************************************************************************)
(* C21 (as claimed): a new left or right look of an alarm that is warning  *)
(* and that does not complete its success sets the silence window to the   *)
(* tick's time plus silence_after_look_ms, sets the volume of its player   *)
(* to 0 and leaves the warning on; and the player of a warning is at       *)
(* volume 0 after every tick whose time is inside the window.              *)
(***************************************************************************)
Crossing(i) == Logged(i, "L") \/ Logged(i, "R")
CrossingInWarning(i) == EntryWarning(i) /\ Crossing(i) /\ ~SuccessCase(i)
Muted(i) ==
    HasPlayer(i) =>
        /\ Called(i, "setVolume")
        /\ \E k \in 1..Len(audio_cmds') : audio_cmds'[k] = <<i, "setVolume", 0>>
        /\ Now < alarm_states'[i].alarm_silence_until_ms =>
              alarm_states'[i].sound_player.volume = 0
CrossingEffects(i) ==
    /\ alarm_states'[i].warning_triggered
    /\ alarm_states'[i].alarm_silence_until_ms = Now + alarms[i].silence_after_look_ms
    /\ Muted(i)
StaysMuted(i) ==
    (/\ alarm_states'[i].warning_triggered
     /\ alarm_states'[i].sound_player.present
     /\ ~Logged(i, "triggered")
     /\ Now < alarm_states'[i].alarm_silence_until_ms)
    => (alarm_states'[i].sound_player.volume = 0 /\ ~Called(i, "play"))

C21_CrossingMutes_Claimed ==
    [][EvalStep =>
        \A i \in EnabledAlarms :
            /\ CrossingInWarning(i) => CrossingEffects(i)
            /\ StaysMuted(i)]_vars

(***************************************************************************)
(* C21 (amended): the same, unless the widest alarm succeeds later in the  *)
(* same tick and its cascade resets the alarm: then the alarm ends the     *)
(* tick fully reset, its warning off, its silence window cleared and its   *)
(* player stopped.                                                         *)
(***************************************************************************)
C21_CrossingMutes ==
    [][EvalStep =>
        \A i \in EnabledAlarms :
            /\ (CrossingInWarning(i) /\ ~ResetAfter(i)) => CrossingEffects(i)
            /\ (CrossingInWarning(i) /\ ResetAfter(i)) =>
                  /\ FullyReset(alarm_states'[i])
                  /\ HasPlayer(i) => Called(i, "stop")
            /\ StaysMuted(i)]_vars

\* the narrower alarm, warning, registers the look that completes the wider
\* alarm's lookout and is reset by the cascade in the same tick
C21_Witness ==
    /\ iter = "eval" /\ widest_alarm_idx = 2
    /\ <<1, "R", 0>> \in events /\ <<1, "silence", 0>> \in events
    /\ <<1, "cascade", 0>> \in events
    /\ \E k \in 1..Len(audio_cmds) : audio_cmds[k] = <<1, "setVolume", 0>>
    /\ ~alarm_states[1].warning_triggered

(***************************************************************************)
(* C22: in a tick that an alarm with a player spends in WARNING outside    *)
(* the silence window, with e the time since the warning started, the      *)
(* volume set on the player is end_volume if volume_ramp_time_ms <= 0 or   *)
(* e >= volume_ramp_time_ms, and otherwise the integer part of             *)
(* start_volume + e * (end_volume - start_volume) / volume_ramp_time_ms;   *)
(* it lies between start_volume and end_volume.                            *)
(***************************************************************************)
RampElapsed(i) == Now - alarm_states[i].warning_start_time_ms
ExactRamp(cfg, e) ==
    IF cfg.volume_ramp_time_ms <= 0 \/ e >= cfg.volume_ramp_time_ms
    THEN cfg.end_volume
    ELSE TruncDiv(cfg.start_volume * cfg.volume_ramp_time_ms
                    + e * (cfg.end_volume - cfg.start_volume),
                  cfg.volume_ramp_time_ms)
SetVolume(i) == alarm_states'[i].sound_player.volume
Sounding(i) == WarningContinues(i) /\ HasPlayer(i) /\ ~InSilence(i)

C22_VolumeRamp ==
    [][EvalStep =>
        \A i \in EnabledAlarms :
            Sounding(i) =>
                /\ SetVolume(i) = ExactRamp(alarms[i], RampElapsed(i))
                /\ SetVolume(i) >= Min(alarms[i].start_volume, alarms[i].end_volume)
                /\ SetVolume(i) <= Max(alarms[i].start_volume, alarms[i].end_volume)
                /\ Called(i, "setVolume")]_vars

(***************************************************************************)
(* C23 (as claimed): a tick in which a left or right flag of an alarm goes *)
(* from false to true without completing its success ends with the time of *)
(* the tick as that side's crossing time and with the silence window at    *)
(* that time plus silence_after_look_ms, whether the alarm is warning or   *)
(* not; and no iteration gives the silence window a new non-zero value     *)
(* otherwise.                                                              *)
(***************************************************************************)
CrossingEvent(i) == Crossing(i) /\ ~SuccessCase(i)
TimesRecorded(i) ==
    /\ Logged(i, "L") => alarm_states'[i].left_ever_time_ms = Now
    /\ Logged(i, "R") => alarm_states'[i].right_ever_time_ms = Now
WindowOpened(i) ==
    alarm_states'[i].alarm_silence_until_ms = Now + alarms[i].silence_after_look_ms
WindowMoved(i) ==
    /\ alarm_states'[i].alarm_silence_until_ms # alarm_states[i].alarm_silence_until_ms
    /\ alarm_states'[i].alarm_silence_until_ms # 0
OnlyCrossingsOpen ==
    LoopStep => \A i \in Alarms :
        WindowMoved(i) => (iter' = "eval" /\ Crossing(i) /\ WindowOpened(i))

C23_CrossingEvent_Claimed ==
    [][/\ EvalStep => \A i \in EnabledAlarms :
             CrossingEvent(i) => (TimesRecorded(i) /\ WindowOpened(i))
       /\ OnlyCrossingsOpen]_vars

(***************************************************************************)
(* C23 (amended): the crossing records its time and opens the window in    *)
(* the tick, and the tick ends that way unless the look was the fourth     *)
(* flag of a PARTIAL (the window stays opened, but both horizontal flags   *)
(* and times are cleared again) or the widest alarm's cascade resets the   *)
(* alarm later in the tick (flags, times and window cleared).  No other    *)
(* iteration gives the window a new non-zero value.                        *)
(***************************************************************************)
C23_CrossingEvent ==
    [][/\ EvalStep => \A i \in EnabledAlarms :
             /\ (CrossingEvent(i) /\ ~ResetAfter(i)) => WindowOpened(i)
             /\ (CrossingEvent(i) /\ ~ResetAfter(i) /\ ~PartialCase(i)) =>
                   TimesRecorded(i)
             /\ (CrossingEvent(i) /\ ~ResetAfter(i) /\ PartialCase(i)) =>
                   HorizontalCleared(alarm_states'[i])
             /\ (CrossingEvent(i) /\ ResetAfter(i)) => FullyReset(alarm_states'[i])
       /\ OnlyCrossingsOpen]_vars

\* a look that made the fourth flag of a PARTIAL while the alarm was warning
C23_Witness ==
    /\ iter = "eval" /\ <<2, "R", 0>> \in events
    /\ \E e \in events : e[1] = 2 /\ e[2] = "partial"
    /\ alarm_states[2].warning_triggered
    /\ alarm_states[2].alarm_silence_until_ms > elapsed_time_ms - PollMs
    /\ alarm_states[2].right_ever_time_ms = TimeUnset

(***************************************************************************)
(* C24 (as claimed): a tick in which an alarm registers a new look up or   *)
(* down, no new look left or right and no success (and in which no center  *)
(* reset, cascade or warning entry touches the alarm) leaves the silence   *)
(* window and the two crossing times as they were, adds one poll period to *)
(* the idle time, and leaves the volume of a warning to the window and the *)
(* ramp.                                                                   *)
(***************************************************************************)
VerticalOnly(i) ==
    /\ Logged(i, "U") \/ Logged(i, "D")
    /\ ~Crossing(i) /\ ~SuccessCase(i)
    /\ ~Logged(0, "center_reset") /\ ~Logged(i, "cascade") /\ ~Logged(i, "triggered")
TimesKept(i) ==
    /\ alarm_states'[i].left_ever_time_ms = alarm_states[i].left_ever_time_ms
    /\ alarm_states'[i].right_ever_time_ms = alarm_states[i].right_ever_time_ms
NoSuppression(i) ==
    /\ alarm_states'[i].alarm_silence_until_ms = alarm_states[i].alarm_silence_until_ms
    /\ alarm_states'[i].noLookTime_ms = alarm_states[i].noLookTime_ms + PollMs
    /\ alarm_states'[i].warning_triggered = alarm_states[i].warning_triggered
    /\ (alarm_states[i].warning_triggered /\ HasPlayer(i)) =>
          alarm_states'[i].sound_player.volume =
              IF Now < alarm_states[i].alarm_silence_until_ms THEN 0 ELSE RampedVolume(i)

Cascaded(j) == Logged(j, "cascade")
Continues(j) ==
    ~SuccessCase(j) =>
        /\ alarm_states'[j].noLookTime_ms = alarm_states[j].noLookTime_ms + PollMs
        /\ alarm_states[j].warning_triggered => alarm_states'[j].warning_triggered
        /\ alarm_states'[j].alarm_silence_until_ms >= alarm_states[j].alarm_silence_until_ms

C25_OneDirection ==
    [][EvalStep => \A j \in EnabledAlarms :
          /\ Cascaded(j) => (WidestSucceeds /\ j \in Narrower)
          /\ ~(WidestSucceeds /\ j \in Narrower) => (~Cascaded(j) /\ Continues(j))]_vars

\* the first of two equally wide alarms is the widest and has succeeded; the
\* second, as wide, goes on with its own flags and idle time
C25_Witness ==
    /\ iter = "eval" /\ Len(alarms) = 2
    /\ widest_alarm_idx = 1
    /\ alarms[2].min_horizontal_angle = alarms[1].min_horizontal_angle
    /\ \E e \in events : e[1] = 1 /\ e[2] = "success"
    /\ alarm_states[2].noLookTime_ms = elapsed_time_ms
    /\ alarm_states[2].looked_up_ever /\ alarm_states[2].looked_down_ever

(***************************************************************************)
(* C26: widest-alarm selection.  Once the startup has run, a widest alarm  *)
(* exists exactly when some alarm is enabled; it is an enabled alarm, no   *)
(* enabled alarm has a larger horizontal span, and the enabled alarms of   *)
(* the same span all come later in configuration order.                    *)
(***************************************************************************)
Span(i) == alarms[i].min_horizontal_angle

C26_WidestSelection ==
    pc = "loop" =>
        /\ widest_alarm_valid <=> EnabledAlarms # {}
        /\ widest_alarm_valid =>
              /\ widest_alarm_idx \in EnabledAlarms
              /\ \A j \in EnabledAlarms :
                    /\ Span(j) <= Span(widest_alarm_idx)
                    /\ Span(j) = Span(widest_alarm_idx) => widest_alarm_idx <= j

\* a disabled alarm first, then two enabled alarms of the same span: the
\* first of the two is the widest
C26_Witness ==
    /\ pc = "loop" /\ Len(alarms) = 3
    /\ 1 \notin EnabledAlarms
    /\ Span(2) = Span(3) /\ alarms[2] # alarms[3]
    /\ widest_alarm_valid /\ widest_alarm_idx = 2

(***************************************************************************)
(* C27: from one state of the loop to the next the end of the silence      *)
(* window of an alarm never becomes smaller, except that it is set to 0 in *)
(* a step in which the alarm succeeds, is reset by the cascade, or the     *)
(* flight ends.                                                            *)
(***************************************************************************)
WindowShrinks(i) ==
    alarm_states'[i].alarm_silence_until_ms < alarm_states[i].alarm_silence_until_ms
FullResetEvent(i) ==
    Logged(i, "success") \/ Logged(i, "cascade") \/ Logged(0, "flight_end")

C27_WindowMonotone ==
    [][\A i \in Alarms :
          WindowShrinks(i) =>
              (FullResetEvent(i) /\ alarm_states'[i].alarm_silence_until_ms = 0)]_vars

\* one alarm has succeeded on its second crossing and its window is cleared;
\* the other alarm, for which the look was too quick, has had its window moved
\* on by the same crossing
C27_Witness ==
    /\ iter = "eval" /\ Len(alarm_states) = 2
    /\ \E e \in events : e[1] = 1 /\ e[2] = "success"
    /\ alarm_states[1].alarm_silence_until_ms = 0
    /\ \E e \in events : e[1] = 2 /\ e[2] = "partial"
    /\ alarm_states[2].alarm_silence_until_ms =
          elapsed_time_ms - PollMs + alarms[2].silence_after_look_ms

(***************************************************************************)
(* C28: flag/timestamp pairing.  In every state the loop reaches, and for  *)
(* each horizontal side of each alarm, the crossing time is unset exactly  *)
(* when the seen flag is false; and a flag that is true after a step       *)
(* either was true before with the same time, or was registered in this    *)
(* tick and carries the time of this tick.                                 *)
(***************************************************************************)
Paired(s) ==
    /\ s.left_ever_time_ms = TimeUnset <=> ~s.looked_left_ever
    /\ s.right_ever_time_ms = TimeUnset <=> ~s.looked_right_ever
StampedLeft(i) ==
    alarm_states'[i].looked_left_ever =>
        \/ /\ alarm_states[i].looked_left_ever
           /\ alarm_states'[i].left_ever_time_ms = alarm_states[i].left_ever_time_ms
        \/ /\ EvalStep /\ Logged(i, "L")
           /\ alarm_states'[i].left_ever_time_ms = Now
StampedRight(i) ==
    alarm_states'[i].looked_right_ever =>
        \/ /\ alarm_states[i].looked_right_ever
           /\ alarm_states'[i].right_ever_time_ms = alarm_states[i].right_ever_time_ms
        \/ /\ EvalStep /\ Logged(i, "R")
           /\ alarm_states'[i].right_ever_time_ms = Now

C28_FlagTimePairing ==
    [][/\ \A i \in 1..Len(alarm_states') : Paired(alarm_states'[i])
       /\ \A i \in Alarms : StampedLeft(i) /\ StampedRight(i)]_vars

\* a look to the left registered in the tick before the last, not the first
\* tick, is still recorded with the time of that tick; the right side is unset
C28_Witness ==
    /\ iter = "eval" /\ Len(alarm_states) = 2
    /\ \E i \in Alarms :
          /\ alarm_states[i].looked_left_ever /\ ~alarm_states[i].looked_right_ever
          /\ alarm_states[i].right_ever_time_ms = TimeUnset
          /\ alarm_states[i].left_ever_time_ms = elapsed_time_ms - 2 * PollMs
          /\ alarm_states[i].left_ever_time_ms > PollMs

(***************************************************************************)
(* C29: no state after a step has an alarm with all four seen flags true:  *)
(* an evaluated tick in which an alarm has all four flags (from before or  *)
(* registered in the tick) resolves to SUCCESS or PARTIAL in that tick,    *)
(* which clears all four or the two horizontal ones.                       *)
(***************************************************************************)
Resolved(i) ==
    \/ Logged(i, "success") /\ FlagsCleared(alarm_states'[i])
    \/ Logged(i, "partial") /\ HorizontalCleared(alarm_states'[i])

C29_FourFlagsResolve ==
    [][/\ \A i \in 1..Len(alarm_states') : ~AllFourSeen(alarm_states'[i])
       /\ EvalStep => \A i \in EnabledAlarms :
             AllFour(i) => Resolved(i)]_vars

\* the look to the right was the fourth flag and came too soon after the look
\* to the left: PARTIAL, the vertical flags stay and the horizontal ones are gone
C29_Witness ==
    /\ iter = "eval" /\ <<1, "R", 0>> \in events /\ <<1, "L", 0>> \notin events
    /\ \E e \in events : e[1] = 1 /\ e[2] = "partial"
    /\ alarm_states[1].looked_up_ever /\ alarm_states[1].looked_down_ever
    /\ ~alarm_states[1].looked_left_ever /\ ~alarm_states[1].looked_right_ever
    /\ ~alarm_states[1].warning_triggered

(***************************************************************************)
(* C30 (as claimed): an iteration in which the center reset fires or the   *)
(* baseline reference is captured leaves every enabled alarm fully reset:  *)
(* idle time 0, no warning, flags, crossing times and silence window       *)
(* cleared.                                                                *)
(***************************************************************************)
CenterResetFired == Logged(0, "center_reset")
BaselineCaptured == Logged(0, "baseline_captured")

C30_CenterBaselineReset_Claimed ==
    [][(LoopStep /\ (CenterResetFired \/ BaselineCaptured)) =>
          \A i \in EnabledAlarms : FullyReset(alarm_states'[i])]_vars

(***************************************************************************)
(* C30 (amended): the center reset clears the four flags and both crossing *)
(* times of every enabled alarm and nothing else: a flag that is true      *)
(* after the tick was registered by the tick's own sample, the idle time   *)
(* goes on counting, a warning stays a warning and the silence window      *)
(* stays.  The capture of the baseline reference changes no alarm state:   *)
(* in an evaluated tick without center reset the flags and times stay      *)
(* (unless the alarm's own evaluation resolves or clears them) and the     *)
(* idle time goes on counting; in a tick without a ready headset the alarm *)
(* states are what they were.                                              *)
(***************************************************************************)
FreshFlags(i) ==
    /\ alarm_states'[i].looked_left_ever => Logged(i, "L")
    /\ alarm_states'[i].looked_right_ever => Logged(i, "R")
    /\ alarm_states'[i].looked_up_ever => Logged(i, "U")
    /\ alarm_states'[i].looked_down_ever => Logged(i, "D")
    /\ Paired(alarm_states'[i])
OwnResolution(i) ==
    \/ Logged(i, "success") \/ Logged(i, "partial")
    \/ Logged(i, "triggered") \/ Cascaded(i)
FlagsKept(i) ==
    /\ alarm_states[i].looked_left_ever =>
          /\ alarm_states'[i].looked_left_ever
          /\ alarm_states'[i].left_ever_time_ms = alarm_states[i].left_ever_time_ms
    /\ alarm_states[i].looked_right_ever =>
          /\ alarm_states'[i].looked_right_ever
          /\ alarm_states'[i].right_ever_time_ms = alarm_states[i].right_ever_time_ms
    /\ alarm_states[i].looked_up_ever => alarm_states'[i].looked_up_ever
    /\ alarm_states[i].looked_down_ever => alarm_states'[i].looked_down_ever

C30_CenterBaselineReset ==
    [][LoopStep => \A i \in EnabledAlarms :
          /\ (iter' = "eval" /\ CenterResetFired) =>
                (FreshFlags(i) /\ (~Cascaded(i) => Continues(i)))
          /\ (iter' = "eval" /\ BaselineCaptured /\ ~CenterResetFired) =>
                /\ ~Cascaded(i) => Continues(i)
                /\ ~OwnResolution(i) => FlagsKept(i)
          /\ (iter' = "hmd_not_ready" /\ BaselineCaptured) =>
                alarm_states'[i] = alarm_states[i]]_vars

\* the center reset has fired, in a tick that captured the baseline as well,
\* on an alarm that is warning and has had a silence window: flags and times
\* are cleared, the idle time, the warning and the end of the window are
\* still there
C30_Witness ==
    /\ iter = "eval" /\ <<0, "center_reset", 0>> \in events
    /\ \E e \in events : e[1] = 0 /\ e[2] = "baseline_captured"
    /\ \E i \in EnabledAlarms :
          /\ FlagsCleared(alarm_states[i])
          /\ alarm_states[i].warning_triggered
          /\ alarm_states[i].noLookTime_ms > PollMs
          /\ alarm_states[i].alarm_silence_until_ms > 0

(***************************************************************************)
(* C31: idle-timer reprieve.  In an evaluated tick of an alarm without     *)
(* warning whose idle time had already reached max_time_ms and whose       *)
(* warning is deferred by an open silence window, a new look left or right *)
(* (that does not complete a SUCCESS) sets the idle time back to 0.        *)
(***************************************************************************)
DeferredAtEntry(i) ==
    /\ ~EntryWarning(i)
    /\ EntryIdle(i) >= alarms[i].max_time_ms
    /\ Now < EntrySilence(i)

ActiveStep == LoopStep /\ iter' \in {"eval", "hmd_not_ready", "session_lost"}

RequestPending ==
    \/ g_request_baseline_reset
    \/ ~condor_flight_active /\ condor_flight_active'
    \/ ~last_should_recenter /\ last_should_recenter'

Captured == LoopStep /\ BaselineCaptured

C33_Independence ==
    pc = "loop" =>
        /\ Len(twin_states) = Len(alarm_states)
        /\ \A i \in Twins : alarm_states[i] = twin_states[i]

\* the widest alarm has succeeded and reset a narrower alarm, which another
\* tick has then moved on
C33_Witness ==
    /\ pc = "loop" /\ iter = "eval"
    /\ <<widest_alarm_idx, "cascade">> \notin logged
    /\ \E j \in Twins :
          /\ <<j, "cascade">> \in logged
          /\ j > widest_alarm_idx
          /\ alarm_states[j] = twin_states[j]
          /\ alarm_states[j].looked_right_ever
          /\ alarm_states[j].warning_triggered

(***************************************************************************)
(* C34: no audible output inside a silence window.  In an evaluated tick   *)
(* in which an alarm's silence window is open when its warning is decided  *)
(* (now < silence_until_ms after the tick's registration; also the window  *)
(* the alarm entered the tick with, unless the widest alarm's cascade has  *)
(* reset it before its evaluation) no alert of the alarm is started or     *)
(* replayed and the only volume set on it is 0; so a non-zero volume is    *)
(* set only in a tick with now >= silence_until_ms.                        *)
(***************************************************************************)
Quiet(i) ==
    \A k \in 1..Len(audio_cmds') :
        audio_cmds'[k][1] = i =>
            /\ audio_cmds'[k][2] # "play"
            /\ audio_cmds'[k][2] = "setVolume" => audio_cmds'[k][3] = 0

WindowOpen(i) == SilencedAt(i) \/ Now < EntrySilence(i)

C34_SilentWindow ==
    [][EvalStep => \A i \in EnabledAlarms : WindowOpen(i) => Quiet(i)]_vars

\* a warning with a player whose repeat is due inside the window: muted, not
\* replayed
C34_Witness ==
    /\ iter = "eval"
    /\ \E i \in 1..Len(alarm_states) :
          /\ alarm_states[i].warning_triggered
          /\ alarm_states[i].sound_player.present
          /\ elapsed_time_ms - PollMs < alarm_states[i].alarm_silence_until_ms
          /\ alarm_states[i].repeat_timer_ms >= alarms[i].repeat_interval_ms
          /\ \E k \in 1..Len(audio_cmds) : audio_cmds[k] = <<i, "setVolume", 0>>
          /\ \A k \in 1..Len(audio_cmds) : audio_cmds[k][2] # "play"

(***************************************************************************)
(* C35: SUCCESS takes priority over escalation within a tick.  In a tick   *)
(* in which an alarm reaches SUCCESS no alert of the alarm is started or   *)
(* replayed, no volume is set on it and its silence window is not          *)
(* reopened (it is 0 after the tick), whatever the idle time and the       *)
(* repeat timer had reached and whether or not the completing glance was a *)
(* new horizontal crossing.                                                *)
(***************************************************************************)
NoEscalation(i) ==
    /\ ~Logged(i, "triggered") /\ ~Logged(i, "deferred")
    /\ ~Logged(i, "repeat") /\ ~Logged(i, "repeat_no_player")
    /\ ~Logged(i, "silence")
    /\ ~Called(i, "play") /\ ~Called(i, "setVolume")

C35_SuccessPriority ==
    [][EvalStep => \A i \in EnabledAlarms :
          SuccessCase(i) =>
              /\ Logged(i, "success")
              /\ NoEscalation(i)
              /\ alarm_states'[i].alarm_silence_until_ms = 0
              /\ ~alarm_states'[i].warning_triggered]_vars

\* a SUCCESS completed by a new horizontal crossing, while the warning had been
\* due and deferred since an earlier tick
C35_Witness ==
    /\ iter = "eval" /\ iterations = 3
    /\ <<1, "deferred">> \in logged
    /\ <<1, "R", 0>> \in events
    /\ \E e \in events : e[1] = 1 /\ e[2] = "success"
    /\ alarm_states[1].alarm_silence_until_ms = 0
    /\ audio_cmds = <<>>

(***************************************************************************)
(* C36 as claimed: in every evaluated tick in which the yaw is beyond an   *)
(* alarm's left (right) threshold and the matching seen flag is false, the *)
(* tick leaves the flag set, the timestamp at now and the silence window   *)
(* at now + silence_after_look_ms.                                         *)
(***************************************************************************)
Sample == observed'[Len(observed')]
BeyondLeft(i) == currently_looking_left(alarms[i], Sample[1])
BeyondRight(i) == currently_looking_right(alarms[i], Sample[1])

LeftRecorded(i) ==
    alarm_states'[i].looked_left_ever /\ alarm_states'[i].left_ever_time_ms = Now
RightRecorded(i) ==
    alarm_states'[i].looked_right_ever /\ alarm_states'[i].right_ever_time_ms = Now

C36_LevelTriggered_Claimed ==
    [][EvalStep => \A i \in EnabledAlarms :
          /\ (BeyondLeft(i) /\ ~alarm_states[i].looked_left_ever) =>
                (LeftRecorded(i) /\ WindowOpened(i))
          /\ (BeyondRight(i) /\ ~alarm_states[i].looked_right_ever) =>
                (RightRecorded(i) /\ WindowOpened(i))]_vars

(***************************************************************************)
(* C36 (amended): a horizontal look is registered on the level of the yaw. *)
(* In every evaluated tick in which the yaw is beyond an alarm's left      *)
(* (right) threshold and the matching flag is false when the alarm is      *)
(* evaluated, the look is registered as new, even if the yaw was beyond    *)
(* the threshold in the tick before.  If the look completes a SUCCESS the  *)
(* alarm is fully reset instead (window 0); otherwise the window is set to *)
(* now + silence_after_look_ms, and the flag and its timestamp stand after *)
(* the tick unless the look completes a PARTIAL, which clears both         *)
(* horizontal flags again.  An alarm that the widest alarm's cascade       *)
(* resets after its evaluation ends the tick fully reset.  A flag that is  *)
(* already set registers nothing.                                          *)
(***************************************************************************)
Registered(i, side) ==
    /\ Logged(i, side)
    /\ SuccessCase(i) => FullyReset(alarm_states'[i])
    /\ (~SuccessCase(i) /\ ResetAfter(i)) => FullyReset(alarm_states'[i])
    /\ (~SuccessCase(i) /\ ~ResetAfter(i)) => WindowOpened(i)
    /\ (PartialCase(i) /\ ~ResetAfter(i)) => HorizontalCleared(alarm_states'[i])

C36_LevelTriggered ==
    [][EvalStep => \A i \in EnabledAlarms :
          /\ (BeyondLeft(i) /\ ~EntryLeft(i)) =>
                /\ Registered(i, "L")
                /\ (~AllFour(i) /\ ~ResetAfter(i)) => LeftRecorded(i)
          /\ (BeyondRight(i) /\ ~EntryRight(i)) =>
                /\ Registered(i, "R")
                /\ (~AllFour(i) /\ ~ResetAfter(i)) => RightRecorded(i)
          /\ EntryLeft(i) => ~Logged(i, "L")
          /\ EntryRight(i) => ~Logged(i, "R")]_vars

\* the yaw stayed beyond the left threshold over two ticks; the warning trigger
\* had cleared the flag and the second tick registered the look again
C36_Witness ==
    /\ iter = "eval" /\ Len(observed) = 2
    /\ observed[1][1] = 70 /\ observed[2][1] = 70
    /\ \E i \in EnabledAlarms :
          /\ <<i, "L", 0>> \in events
          /\ <<i, "triggered">> \in logged
          /\ alarm_states[i].warning_triggered
          /\ alarm_states[i].looked_left_ever
          /\ alarm_states[i].left_ever_time_ms = elapsed_time_ms - PollMs
          /\ alarm_states[i].alarm_silence_until_ms =
                elapsed_time_ms - PollMs + alarms[i].silence_after_look_ms

(***************************************************************************)
(* C37: no tick registers a look to the left and a look to the right for   *)
(* the same enabled alarm, so whenever both horizontal flags of an alarm   *)
(* are set their timestamps differ by at least one poll period.            *)
(***************************************************************************)
BothSides(s) == s.looked_left_ever /\ s.looked_right_ever

C37_OneSidePerTick ==
    [][/\ EvalStep => \A i \in EnabledAlarms : ~(Logged(i, "L") /\ Logged(i, "R"))
       /\ \A i \in 1..Len(alarm_states') :
             BothSides(alarm_states'[i]) =>
                 Abs(alarm_states'[i].left_ever_time_ms
                     - alarm_states'[i].right_ever_time_ms) >= PollMs]_vars

\* both flags set by the looks of two successive ticks
C37_Witness ==
    /\ iter = "eval"
    /\ \E i \in EnabledAlarms :
          /\ BothSides(alarm_states[i])
          /\ <<i, "R", 0>> \in events
          /\ alarm_states[i].right_ever_time_ms - alarm_states[i].left_ever_time_ms = PollMs

(***************************************************************************)
(* C38: the session handle is never used after destruction.  Whenever the  *)
(* keyboard hook has found g_ovr_session non-null and calls                *)
(* ovr_RecenterTrackingOrigin on it, the call is made on a session that    *)
(* the core thread has not destroyed.                                      *)
(***************************************************************************)
C38_SessionNotUsedAfterDestroy == hook # "call_destroyed"

(***************************************************************************)
(* C39: the clock elapsed_time_ms never decreases and keeps advancing      *)
(* while detection is paused: every evaluated tick and every iteration     *)
(* without a usable sensor (HMD not ready, session lost) advances it by    *)
(* one poll period, every iteration with the flight inactive by five.      *)
(***************************************************************************)
C39_ClockAdvances ==
    [][/\ elapsed_time_ms' >= elapsed_time_ms
       /\ LoopStep =>
             /\ (iter' = "eval" \/ SensorUnavailable) =>
                   elapsed_time_ms' = elapsed_time_ms + PollMs
             /\ iter' = "inactive" =>
                   elapsed_time_ms' = elapsed_time_ms + PollMs * InactiveSleepFactor]_vars

(***************************************************************************)
(* C40: the center reset is latched.  It fires only in an evaluated tick   *)
(* whose sample lies inside the center window, with the latch open, in the *)
(* tick in which the hold timer reaches the hold time, and it closes the   *)
(* latch; while the latch is closed no center reset fires, and the latch   *)
(* opens again (and the hold timer restarts) only in an evaluated tick     *)
(* whose sample lies outside the window.  When it fires, every enabled     *)
(* alarm keeps only the flags and times the tick's own sample registers,   *)
(* its idle time advances by the poll period as in any other tick, its     *)
(* warning stays on if it was on, its repeat timer is advanced or          *)
(* restarted by the warning branch only, and its silence window moves only *)
(* if the sample registers a crossing.                                     *)
(***************************************************************************)
SampleInWindow == InCenterWindow(Sample[1], Sample[2])

LatchCloses ==
    /\ iter' = "eval" /\ SampleInWindow
    /\ ~center_reset_active /\ center_reset_active'
    /\ center_hold_timer_ms < center_reset_hold_time_ms
    /\ center_hold_timer_ms' >= center_reset_hold_time_ms

LatchOpens ==
    /\ iter' = "eval" /\ ~SampleInWindow
    /\ center_hold_timer_ms' = 0

RepeatTimerRuns(i) ==
    \/ alarm_states'[i].repeat_timer_ms = alarm_states[i].repeat_timer_ms + PollMs
    \/ alarm_states'[i].repeat_timer_ms = 0
    \/ /\ ~alarm_states[i].warning_triggered
       /\ alarm_states'[i].repeat_timer_ms = alarm_states[i].repeat_timer_ms

TimersStand(i) ==
    /\ alarm_states'[i].noLookTime_ms = alarm_states[i].noLookTime_ms + PollMs
    /\ alarm_states[i].warning_triggered => alarm_states'[i].warning_triggered
    /\ (alarm_states'[i].warning_triggered /\ ~alarm_states[i].warning_triggered)
          => Logged(i, "triggered")
    /\ RepeatTimerRuns(i)
    /\ ~Crossing(i) =>
          alarm_states'[i].alarm_silence_until_ms = alarm_states[i].alarm_silence_until_ms

C40_CenterResetLatch ==
    [][LoopStep =>
          /\ CenterResetFired => LatchCloses
          /\ (center_reset_active /\ ~center_reset_active') => LatchOpens
          /\ (center_reset_active /\ center_reset_active') => ~CenterResetFired
          /\ CenterResetFired =>
                \A i \in EnabledAlarms : FreshFlags(i) /\ TimersStand(i)]_vars

\* the head stayed in the window after the center reset had fired: the tick
\* after it fired no second reset, the latch is still closed, and an alarm whose
\* warning was on is still warned, its flags cleared and its idle time running
C40_Witness ==
    /\ iter = "eval" /\ Len(observed) = 2
    /\ InCenterWindow(observed[1][1], observed[1][2])
    /\ InCenterWindow(observed[2][1], observed[2][2])
    /\ <<0, "center_reset">> \in logged
    /\ ~\E e \in events : e[1] = 0 /\ e[2] = "center_reset"
    /\ center_reset_active
    /\ center_hold_timer_ms > center_reset_hold_time_ms
    /\ \E i \in EnabledAlarms :
          /\ alarm_states[i].warning_triggered
          /\ ~alarm_states[i].looked_left_ever /\ ~alarm_states[i].looked_right_ever
          /\ alarm_states[i].noLookTime_ms > center_reset_hold_time_ms

====
